---- MODULE Spec2Model ----
(***************************************************************************)
(* Neural TTA emulator: the memory-mapped system bus (bus.rs), the neural  *)
(* register (register.rs), the functional units (fu.rs), the               *)
(* fetch-execute loop (system.rs), and the circuit evaluator over          *)
(* primitive gates (legacy/circuit.rs, legacy/gate.rs).                    *)
(*                                                                         *)
(* Activations are f32 in the source.  They are modelled in tenths:        *)
(* the integer 10 is 1.0, 5 is 0.5, 0 is 0.0.  All comparisons the code    *)
(* makes on activations (v > 0.5, |v - 1.0| < 0.1) are made on the         *)
(* tenths.  An Array1<f32> is a sequence of tenths; a HashMap<u16, T> is   *)
(* a function whose DOMAIN is the set of populated keys; an Option<T> is   *)
(* a sequence of length 0 (None) or 1 (Some).                              *)
(***************************************************************************)
EXTENDS Integers, Sequences, FiniteSets, TLC

VARIABLES bus, program, pc, total_steps, logs, panicked, last,
          reg,
          circuit, circuit_inputs, gate_outputs, frames, results, outcome, evals,
          mutex, threads, executed

\* the emulator and its bus
emu_vars == <<bus, program, pc, total_steps, logs>>
\* one circuit and the evaluation of NeuralCircuit::forward on it
circ_vars == <<circuit, circuit_inputs, gate_outputs, frames, results, outcome, evals>>

\* the front end's lock around the emulator and the threads that take it
gui_vars == <<mutex, threads, executed>>

vars == <<emu_vars, panicked, last, reg, circ_vars, gui_vars>>

(***************************************************************************)
(* Program constants                                                       *)
(***************************************************************************)
\* 0.5 in tenths: the threshold of the guard test and of the bit decoders
HALF == 5
\* 1.0 in tenths
ONE == 10
\* 0.1 in tenths: the tolerance of the status formatter
TOL == 1
\* first address past the register region (0x1000)
REG_END == 4096
\* first address past the functional-unit region (0x2000)
FU_END == 8192
\* first address past the RAM region (0x8000)
RAM_END == 32768
\* the address the status names "UART" (0x8000)
UART_ADDR == 32768
\* the largest u16 address (0xFFFF)
ADDR_MAX == 65535
\* length of the vector a read of an unresolved address yields
DEFAULT_LEN == 8
\* number of elements of the moved vector the status shows
SHOWN == 8
\* number of output bits of the program-counter unit
PC_BITS == 8
\* initial stack pointer of the stack-pointer unit (0xFF)
SP_INIT == 255

(***************************************************************************)
(* Vectors, options, maps                                                  *)
(***************************************************************************)
zeros(n) == [i \in 1..n |-> 0]

None == << >>
Some(v) == <<v>>

EmptyMap == << >>
insert(m, k, v) == [a \in (DOMAIN m) \cup {k} |-> IF a = k THEN v ELSE m[a]]

Min(a, b) == IF a < b THEN a ELSE b
Abs(v) == IF v < 0 THEN -v ELSE v

RECURSIVE Pow2(_)
Pow2(i) == IF i = 0 THEN 1 ELSE 2 * Pow2(i - 1)

\* bit i (from 0) of the unsigned integer n: (n >> i) & 1
Bit(n, i) == (n \div Pow2(i)) % 2

\* the integer whose bit i is (v[i] > 0.5); indices of the source start at 0
RECURSIVE DecodeFrom(_, _)
DecodeFrom(v, i) ==
    IF i > Len(v) THEN 0
    ELSE (IF v[i] > HALF THEN Pow2(i - 1) ELSE 0) + DecodeFrom(v, i + 1)
\* (u32 in the source; every vector of the model is shorter than 32 elements,
\* so no shift reaches the width of the integer)
decode_bits(v) == DecodeFrom(v, 1)

(***************************************************************************)
(* register.rs: NeuralRegister                                             *)
(***************************************************************************)
\* a register holding a given state
reg_with(width, state) == [state |-> state, width |-> width]

NeuralRegister_new(width) == reg_with(width, zeros(width))

\* mutant of NeuralRegister_write: the length of the value is not checked
NeuralRegister_write_unchecked(r, value) == [r EXCEPT !.state = value]

\* mutant of NeuralRegister_write: the accepted value is snapped to 0.0 / 1.0
NeuralRegister_write_snap(r, value) ==
    IF Len(value) = r.width
    THEN [r EXCEPT !.state = [i \in 1..Len(value) |-> IF value[i] > HALF THEN ONE ELSE 0]]
    ELSE r

\* mutant of NeuralRegister_write: a value of another length resizes the register
NeuralRegister_write_resize(r, value) == [r EXCEPT !.state = value, !.width = Len(value)]

\* replaces the state when the lengths agree; otherwise only a warning is printed
NeuralRegister_write(r, value) ==
    IF Len(value) = r.width THEN [r EXCEPT !.state = value] ELSE r

NeuralRegister_read(r) == r.state

\* the integer whose bit i is (state[i] > 0.5)
NeuralRegister_to_symbolic(r) == decode_bits(r.state)

\* mutant of NeuralRegister_from_symbolic: the most significant bit first
NeuralRegister_from_symbolic_msb(width, val) ==
    NeuralRegister_write(NeuralRegister_new(width),
                         [i \in 1..width |-> IF Bit(val, width - i) = 1 THEN ONE ELSE 0])

\* a fresh register of the width, written with bit i of val as 1.0 / 0.0
NeuralRegister_from_symbolic(width, val) ==
    NeuralRegister_write(NeuralRegister_new(width),
                         [i \in 1..width |-> IF Bit(val, i - 1) = 1 THEN ONE ELSE 0])

\* mutant of NeuralRegister_cleanup: 0.5 itself snaps to 1.0
NeuralRegister_cleanup_ge(r) ==
    [r EXCEPT !.state = [i \in 1..Len(r.state) |-> IF r.state[i] >= HALF THEN ONE ELSE 0]]

\* snaps every activation to 1.0 (above 0.5) or 0.0
NeuralRegister_cleanup(r) ==
    [r EXCEPT !.state = [i \in 1..Len(r.state) |-> IF r.state[i] > HALF THEN ONE ELSE 0]]

(***************************************************************************)
(* fu.rs: the functional units.  forward yields the unit after the call,   *)
(* the output vector, and whether the call panicked.                       *)
(***************************************************************************)
\* Activation::apply for the two piecewise-linear kinds (exact on tenths)
Activation_apply(act, x) ==
    IF act = "ReLU" THEN [i \in 1..Len(x) |-> IF x[i] > 0 THEN x[i] ELSE 0]
    ELSE x

RECURSIVE DotRow(_, _, _)
DotRow(row, x, j) == IF j > Len(row) THEN 0 ELSE row[j] * x[j] + DotRow(row, x, j + 1)

\* Array2::dot(Array1): one inner product per row
dot(w, x) == [i \in 1..Len(w) |-> DotRow(w[i], x, 1)]

vec_add(a, b) == [i \in 1..Len(a) |-> a[i] + b[i]]

\* number of columns of a weight matrix (its input size)
ncols(w) == Len(w[1])

\* BaseFU::forward: w1.dot(input) panics in ndarray when the shapes disagree
BaseFU_forward(u, input) ==
    IF ncols(u.w1) # Len(input)
    THEN [unit |-> u, output |-> << >>, panic |-> TRUE]
    ELSE LET h_pre == vec_add(dot(u.w1, input), u.b1)
             h     == Activation_apply(u.active_hidden, h_pre)
             y_pre == vec_add(dot(u.w2, h), u.b2)
         IN [unit |-> u, output |-> Activation_apply(u.active_output, y_pre), panic |-> FALSE]

\* mutant of ProgramCounterFU_forward: a relative jump, the input is added to pc
ProgramCounterFU_forward_relative(u, input) ==
    LET addr == u.pc + decode_bits(input)
    IN [unit   |-> [u EXCEPT !.pc = addr],
        output |-> [i \in 1..PC_BITS |-> IF Bit(addr, i - 1) = 1 THEN ONE ELSE 0],
        panic  |-> FALSE]

\* ProgramCounterFU::forward: the input is the jump target, the output its low 8 bits
ProgramCounterFU_forward(u, input) ==
    LET addr == decode_bits(input)
    IN [unit   |-> [u EXCEPT !.pc = addr],
        output |-> [i \in 1..PC_BITS |-> IF Bit(addr, i - 1) = 1 THEN ONE ELSE 0],
        panic  |-> FALSE]

\* StackPointerFU::forward: every call is a push (sp.wrapping_sub(1); the
\* pointer starts at 0xFF and the runs of the model push fewer than 256 times)
StackPointerFU_forward(u, input) ==
    LET sp == u.sp - 1
    IN [unit   |-> [u EXCEPT !.sp = sp, !.stack = insert(u.stack, sp, input)],
        output |-> input,
        panic  |-> FALSE]

\* dynamic dispatch of NeuralFunctionalUnit::forward
forward(u, input) ==
    CASE u.kind = "base" -> BaseFU_forward(u, input)
      [] u.kind = "pc"   -> ProgramCounterFU_forward(u, input)
      [] u.kind = "sp"   -> StackPointerFU_forward(u, input)

\* NeuralFunctionalUnit::tick: a no-op except for the program counter (pc += 1;
\* the counter stays below 2^8 + the number of steps in the runs of the model)
tick(u) == IF u.kind = "pc" THEN [u EXCEPT !.pc = u.pc + 1] ELSE u

ProgramCounterFU_new == [kind |-> "pc", pc |-> 0]
StackPointerFU_new(width) == [kind |-> "sp", sp |-> SP_INIT, stack |-> EmptyMap, width |-> width]
BaseFU_new(w1, b1, w2, b2, ah, ao) ==
    [kind |-> "base", w1 |-> w1, b1 |-> b1, w2 |-> w2, b2 |-> b2,
     active_hidden |-> ah, active_output |-> ao]

(***************************************************************************)
(* bus.rs: SystemBus                                                       *)
(***************************************************************************)
SystemBus_new ==
    [registers |-> EmptyMap, units |-> EmptyMap, ram |-> EmptyMap,
     mmio |-> EmptyMap, fu_io_cache |-> EmptyMap]

MoveOp(src, dest, guard) == [src |-> src, dest |-> dest, guard |-> guard]

add_register(b, addr, width) ==
    [b EXCEPT !.registers = insert(b.registers, addr, NeuralRegister_new(width))]

add_unit(b, base_addr, unit) == [b EXCEPT !.units = insert(b.units, base_addr, unit)]

add_mmio(b, addr, device) == [b EXCEPT !.mmio = insert(b.mmio, addr, device)]

\* mutant of read_mem: an unpopulated RAM cell reads as the empty vector
read_mem_empty(b, addr) ==
    IF addr < REG_END
    THEN (IF addr \in DOMAIN b.registers
          THEN NeuralRegister_read(b.registers[addr]) ELSE zeros(DEFAULT_LEN))
    ELSE IF addr < FU_END THEN zeros(DEFAULT_LEN)
    ELSE IF addr < RAM_END
    THEN (IF addr \in DOMAIN b.ram THEN b.ram[addr] ELSE zeros(0))
    ELSE zeros(DEFAULT_LEN)

\* mutant of read_mem: a read of a unit or device address returns the output
\* cached by the last write to it
read_mem_cached(b, addr) ==
    IF addr < REG_END
    THEN (IF addr \in DOMAIN b.registers
          THEN NeuralRegister_read(b.registers[addr]) ELSE zeros(DEFAULT_LEN))
    ELSE IF addr >= FU_END /\ addr < RAM_END
    THEN (IF addr \in DOMAIN b.ram THEN b.ram[addr] ELSE zeros(DEFAULT_LEN))
    ELSE IF addr \in DOMAIN b.fu_io_cache THEN b.fu_io_cache[addr][2]
    ELSE zeros(DEFAULT_LEN)

\* the region-specific read; units, devices and unpopulated cells read as zeros(8)
read_mem(b, addr) ==
    IF addr < REG_END
    THEN (IF addr \in DOMAIN b.registers
          THEN NeuralRegister_read(b.registers[addr]) ELSE zeros(DEFAULT_LEN))
    ELSE IF addr < FU_END THEN zeros(DEFAULT_LEN)
    ELSE IF addr < RAM_END
    THEN (IF addr \in DOMAIN b.ram THEN b.ram[addr] ELSE zeros(DEFAULT_LEN))
    ELSE zeros(DEFAULT_LEN)

HexDigit == <<"0", "1", "2", "3", "4", "5", "6", "7", "8", "9", "A", "B", "C", "D", "E", "F">>

\* format!("{:X}", n)
RECURSIVE Hex(_)
Hex(n) == IF n < 16 THEN HexDigit[n + 1] ELSE Hex(n \div 16) \o HexDigit[(n % 16) + 1]

Unknown(addr) == "Unknown[0x" \o Hex(addr) \o "]"

\* mutant of write_mem: the register region reaches one address too far
write_mem_le(b, addr, data) ==
    IF addr <= REG_END
    THEN (IF addr \in DOMAIN b.registers
          THEN [bus   |-> [b EXCEPT !.registers[addr] = NeuralRegister_write(@, data)],
                desc  |-> "R" \o ToString(addr), panic |-> FALSE]
          ELSE [bus |-> b, desc |-> Unknown(addr), panic |-> FALSE])
    ELSE IF addr < FU_END
    THEN (IF addr \in DOMAIN b.units
          THEN LET f == forward(b.units[addr], data)
               IN IF f.panic THEN [bus |-> b, desc |-> "", panic |-> TRUE]
                  ELSE [bus   |-> [b EXCEPT !.units[addr] = f.unit,
                                            !.fu_io_cache = insert(@, addr, <<data, f.output>>)],
                        desc  |-> "FU[0x" \o Hex(addr) \o "]", panic |-> FALSE]
          ELSE [bus |-> b, desc |-> Unknown(addr), panic |-> FALSE])
    ELSE IF addr < RAM_END
    THEN [bus   |-> [b EXCEPT !.ram = insert(@, addr, data)],
          desc  |-> "RAM[0x" \o Hex(addr) \o "]", panic |-> FALSE]
    ELSE (IF addr \in DOMAIN b.mmio
          THEN LET f == forward(b.mmio[addr], data)
               IN IF f.panic THEN [bus |-> b, desc |-> "", panic |-> TRUE]
                  ELSE [bus   |-> [b EXCEPT !.mmio[addr] = f.unit,
                                            !.fu_io_cache = insert(@, addr, <<data, f.output>>)],
                        desc  |-> IF addr = UART_ADDR THEN "UART"
                                  ELSE "MMIO[0x" \o Hex(addr) \o "]",
                        panic |-> FALSE]
          ELSE [bus |-> b, desc |-> Unknown(addr), panic |-> FALSE])

\* mutant of write_mem: a write to an unpopulated register address creates the register
write_mem_autocreate(b, addr, data) ==
    IF addr < REG_END
    THEN (IF addr \in DOMAIN b.registers
          THEN [bus   |-> [b EXCEPT !.registers[addr] = NeuralRegister_write(@, data)],
                desc  |-> "R" \o ToString(addr), panic |-> FALSE]
          ELSE [bus   |-> [b EXCEPT !.registers =
                                      insert(@, addr, reg_with(Len(data), data))],
                desc  |-> "R" \o ToString(addr), panic |-> FALSE])
    ELSE IF addr < FU_END
    THEN (IF addr \in DOMAIN b.units
          THEN LET f == forward(b.units[addr], data)
               IN IF f.panic THEN [bus |-> b, desc |-> "", panic |-> TRUE]
                  ELSE [bus   |-> [b EXCEPT !.units[addr] = f.unit,
                                            !.fu_io_cache = insert(@, addr, <<data, f.output>>)],
                        desc  |-> "FU[0x" \o Hex(addr) \o "]", panic |-> FALSE]
          ELSE [bus |-> b, desc |-> Unknown(addr), panic |-> FALSE])
    ELSE IF addr < RAM_END
    THEN [bus   |-> [b EXCEPT !.ram = insert(@, addr, data)],
          desc  |-> "RAM[0x" \o Hex(addr) \o "]", panic |-> FALSE]
    ELSE (IF addr \in DOMAIN b.mmio
          THEN LET f == forward(b.mmio[addr], data)
               IN IF f.panic THEN [bus |-> b, desc |-> "", panic |-> TRUE]
                  ELSE [bus   |-> [b EXCEPT !.mmio[addr] = f.unit,
                                            !.fu_io_cache = insert(@, addr, <<data, f.output>>)],
                        desc  |-> IF addr = UART_ADDR THEN "UART"
                                  ELSE "MMIO[0x" \o Hex(addr) \o "]",
                        panic |-> FALSE]
          ELSE [bus |-> b, desc |-> Unknown(addr), panic |-> FALSE])

\* mutant of write_mem: a RAM write only updates a cell that already exists
write_mem_ram_existing(b, addr, data) ==
    IF addr < REG_END
    THEN (IF addr \in DOMAIN b.registers
          THEN [bus   |-> [b EXCEPT !.registers[addr] = NeuralRegister_write(@, data)],
                desc  |-> "R" \o ToString(addr), panic |-> FALSE]
          ELSE [bus |-> b, desc |-> Unknown(addr), panic |-> FALSE])
    ELSE IF addr < FU_END
    THEN (IF addr \in DOMAIN b.units
          THEN LET f == forward(b.units[addr], data)
               IN IF f.panic THEN [bus |-> b, desc |-> "", panic |-> TRUE]
                  ELSE [bus   |-> [b EXCEPT !.units[addr] = f.unit,
                                            !.fu_io_cache = insert(@, addr, <<data, f.output>>)],
                        desc  |-> "FU[0x" \o Hex(addr) \o "]", panic |-> FALSE]
          ELSE [bus |-> b, desc |-> Unknown(addr), panic |-> FALSE])
    ELSE IF addr < RAM_END
    THEN [bus   |-> IF addr \in DOMAIN b.ram THEN [b EXCEPT !.ram[addr] = data] ELSE b,
          desc  |-> "RAM[0x" \o Hex(addr) \o "]", panic |-> FALSE]
    ELSE (IF addr \in DOMAIN b.mmio
          THEN LET f == forward(b.mmio[addr], data)
               IN IF f.panic THEN [bus |-> b, desc |-> "", panic |-> TRUE]
                  ELSE [bus   |-> [b EXCEPT !.mmio[addr] = f.unit,
                                            !.fu_io_cache = insert(@, addr, <<data, f.output>>)],
                        desc  |-> IF addr = UART_ADDR THEN "UART"
                                  ELSE "MMIO[0x" \o Hex(addr) \o "]",
                        panic |-> FALSE]
          ELSE [bus |-> b, desc |-> Unknown(addr), panic |-> FALSE])

\* the region-specific write: the bus afterwards, the description of the
\* destination, and whether a unit's forward panicked
write_mem(b, addr, data) ==
    IF addr < REG_END
    THEN (IF addr \in DOMAIN b.registers
          THEN [bus   |-> [b EXCEPT !.registers[addr] = NeuralRegister_write(@, data)],
                desc  |-> "R" \o ToString(addr), panic |-> FALSE]
          ELSE [bus |-> b, desc |-> Unknown(addr), panic |-> FALSE])
    ELSE IF addr < FU_END
    THEN (IF addr \in DOMAIN b.units
          THEN LET f == forward(b.units[addr], data)
               IN IF f.panic THEN [bus |-> b, desc |-> "", panic |-> TRUE]
                  ELSE [bus   |-> [b EXCEPT !.units[addr] = f.unit,
                                            !.fu_io_cache = insert(@, addr, <<data, f.output>>)],
                        desc  |-> "FU[0x" \o Hex(addr) \o "]", panic |-> FALSE]
          ELSE [bus |-> b, desc |-> Unknown(addr), panic |-> FALSE])
    ELSE IF addr < RAM_END
    THEN [bus   |-> [b EXCEPT !.ram = insert(@, addr, data)],
          desc  |-> "RAM[0x" \o Hex(addr) \o "]", panic |-> FALSE]
    ELSE (IF addr \in DOMAIN b.mmio
          THEN LET f == forward(b.mmio[addr], data)
               IN IF f.panic THEN [bus |-> b, desc |-> "", panic |-> TRUE]
                  ELSE [bus   |-> [b EXCEPT !.mmio[addr] = f.unit,
                                            !.fu_io_cache = insert(@, addr, <<data, f.output>>)],
                        desc  |-> IF addr = UART_ADDR THEN "UART"
                                  ELSE "MMIO[0x" \o Hex(addr) \o "]",
                        panic |-> FALSE]
          ELSE [bus |-> b, desc |-> Unknown(addr), panic |-> FALSE])

\* one element of the status: "1" or "0" when within 0.1 of it, else format!("{:.1}")
fmt_elem(v) ==
    IF Abs(v - ONE) < TOL THEN "1"
    ELSE IF Abs(v) < TOL THEN "0"
    ELSE (IF v < 0 THEN "-" ELSE "") \o ToString(Abs(v) \div ONE) \o "." \o ToString(Abs(v) % ONE)

RECURSIVE JoinFrom(_, _, _)
JoinFrom(v, i, n) ==
    IF i > n THEN ""
    ELSE fmt_elem(v[i]) \o (IF i < n THEN ", " ELSE "") \o JoinFrom(v, i + 1, n)

\* "[a, b, ...]" over the first 8 elements of the moved vector
val_str(data) == "[" \o JoinFrom(data, 1, Min(SHOWN, Len(data))) \o "]"

SKIPPED == "Skipped (Guard Low)"

Moved(data, dest_desc) == "Moved " \o val_str(data) \o " to " \o dest_desc

\* mutant of guard_low: the comparison is strict, so exactly 0.5 passes the guard
guard_low_strict(b, guard_addr) ==
    LET guard_val == read_mem(b, guard_addr)
    IN (IF Len(guard_val) > 0 THEN guard_val[1] ELSE 0) < HALF

\* guard_val.get(0).unwrap_or(&0.0) <= 0.5
guard_low(b, guard_addr) ==
    LET guard_val == read_mem(b, guard_addr)
    IN (IF Len(guard_val) > 0 THEN guard_val[1] ELSE 0) <= HALF

\* SystemBus::execute: the bus afterwards, the status, and whether it panicked
execute(b, op) ==
    IF op.guard # None /\ guard_low(b, op.guard[1])
    THEN [bus |-> b, status |-> SKIPPED, panic |-> FALSE]
    ELSE LET data == read_mem(b, op.src)
             w    == write_mem(b, op.dest, data)
         IN IF w.panic THEN [bus |-> b, status |-> "", panic |-> TRUE]
            ELSE [bus |-> w.bus, status |-> Moved(data, w.desc), panic |-> FALSE]

\* tick_all visiting the units in the order us and then the devices in the
\* order ms (values_mut() of a HashMap yields them in an unspecified order)
RECURSIVE tick_units_in(_, _, _)
tick_units_in(m, order, i) ==
    IF i > Len(order) THEN m
    ELSE tick_units_in([m EXCEPT ![order[i]] = tick(@)], order, i + 1)

tick_all_in(b, us, ms) ==
    [b EXCEPT !.units = tick_units_in(b.units, us, 1),
              !.mmio  = tick_units_in(b.mmio, ms, 1)]

\* mutant of tick_all: the devices are not ticked
tick_all_units_only(b) ==
    [b EXCEPT !.units = [a \in DOMAIN b.units |-> tick(b.units[a])]]

tick_all(b) ==
    [b EXCEPT !.units = [a \in DOMAIN b.units |-> tick(b.units[a])],
              !.mmio  = [a \in DOMAIN b.mmio |-> tick(b.mmio[a])]]

(***************************************************************************)
(* system.rs: SystemEmulator.  `panicked` records that a call unwound with *)
(* a panic instead of returning; `last` records the most recent call: its  *)
(* name, the instruction it ran, the status execute returned, the value    *)
(* step returned, and the number of direct bus calls made so far.          *)
(***************************************************************************)
Call(name, op, status, ret, n) ==
    [call |-> name, op |-> op, status |-> status, ret |-> ret, n |-> n]

\* format!("[Step {} | PC {}] {}", total_steps, pc, exec_log)
log_entry(steps, at, exec_log) ==
    "[Step " \o ToString(steps) \o " | PC " \o ToString(at) \o "] " \o exec_log

\* mutant of step_halted: the halted call is counted as a step
step_halted_counted ==
    /\ last' = Call("step", None, None, Some(FALSE), last.n)
    /\ total_steps' = total_steps + 1
    /\ UNCHANGED <<bus, program, pc, logs, panicked>>

\* step() at pc >= program.len(): "return false; // Halted"
step_halted ==
    /\ last' = Call("step", None, None, Some(FALSE), last.n)
    /\ UNCHANGED <<bus, program, pc, total_steps, logs, panicked>>

\* mutant of step_run: the fetch index follows the program-counter unit at 0x1000
step_run_follow_unit ==
    LET op == program[pc + 1]
        e  == execute(bus, op)
    IN IF e.panic
       THEN /\ panicked' = TRUE
            /\ last' = Call("step", Some(op), None, None, last.n)
            /\ UNCHANGED <<bus, program, pc, total_steps, logs>>
       ELSE /\ bus' = tick_all(e.bus)
            /\ logs' = Append(logs, log_entry(total_steps, pc, e.status))
            /\ pc' = IF REG_END \in DOMAIN bus'.units /\ bus'.units[REG_END].kind = "pc"
                     THEN Min(bus'.units[REG_END].pc, Len(program))
                     ELSE pc + 1
            /\ total_steps' = total_steps + 1
            /\ last' = Call("step", Some(op), Some(e.status), Some(TRUE), last.n)
            /\ UNCHANGED <<program, panicked>>

\* step() at pc < program.len(): execute, log, tick, advance, return true;
\* a panic inside execute unwinds out of step before anything is stored
step_run ==
    LET op == program[pc + 1]
        e  == execute(bus, op)
    IN IF e.panic
       THEN /\ panicked' = TRUE
            /\ last' = Call("step", Some(op), None, None, last.n)
            /\ UNCHANGED <<bus, program, pc, total_steps, logs>>
       ELSE /\ bus' = tick_all(e.bus)
            /\ logs' = Append(logs, log_entry(total_steps, pc, e.status))
            /\ pc' = pc + 1
            /\ total_steps' = total_steps + 1
            /\ last' = Call("step", Some(op), Some(e.status), Some(TRUE), last.n)
            /\ UNCHANGED <<program, panicked>>

\* SystemEmulator::step
step ==
    /\ ~panicked
    /\ IF pc >= Len(program) THEN step_halted ELSE step_run
    /\ UNCHANGED <<reg, circ_vars, gui_vars>>

(***************************************************************************)
(* legacy/gate.rs: NeuralGate.  Weights are whole numbers, biases and      *)
(* activations are tenths, so every product and sum is exact.              *)
(***************************************************************************)
\* legacy Activation::apply for the piecewise-linear kinds (Sigmoid has no
\* exact value on tenths and no gate of the model uses it)
gate_Activation_apply(act, x) ==
    IF act = "ReLU" THEN [i \in 1..Len(x) |-> IF x[i] > 0 THEN x[i] ELSE 0]
    ELSE IF act = "Step" THEN [i \in 1..Len(x) |-> IF x[i] > HALF THEN ONE ELSE 0]
    ELSE x

NeuralGate_new(w1, b1, w2, b2, ah, ao) ==
    [w1 |-> w1, b1 |-> b1, w2 |-> w2, b2 |-> b2,
     activation_hidden |-> ah, activation_output |-> ao]

\* the gate without its hidden bias: y = ActivationOutput(W2 . ActivationHidden(W1 . x) + b2)
NeuralGate_forward_nobias(g, inputs) ==
    LET h     == gate_Activation_apply(g.activation_hidden, dot(g.w1, inputs))
        y_pre == vec_add(dot(g.w2, h), g.b2)
    IN gate_Activation_apply(g.activation_output, y_pre)

\* y = ActivationOutput(W2 . ActivationHidden(W1 . x + b1) + b2)
NeuralGate_forward(g, inputs) ==
    LET h_pre == vec_add(dot(g.w1, inputs), g.b1)
        h     == gate_Activation_apply(g.activation_hidden, h_pre)
        y_pre == vec_add(dot(g.w2, h), g.b2)
    IN gate_Activation_apply(g.activation_output, y_pre)

(***************************************************************************)
(* legacy/circuit.rs: NeuralCircuit.  Gate ids, input indices and output   *)
(* indices count from 0 as in the source.  A connection maps               *)
(* <<dest gate, input index>> to <<source, output index>>, the source      *)
(* being None for the circuit input or Some(gate id).                      *)
(***************************************************************************)
NeuralCircuit_new(input_size) ==
    [gates |-> EmptyMap, connections |-> EmptyMap, input_size |-> input_size,
     output_mapping |-> << >>, next_gate_id |-> 0]

\* inserts the gate under the next id (the id returned is c.next_gate_id)
add_gate(c, gate) ==
    [c EXCEPT !.gates = insert(c.gates, c.next_gate_id, gate),
              !.next_gate_id = c.next_gate_id + 1]

connect(c, source_gate_id, source_output_idx, dest_gate_id, dest_input_idx) ==
    [c EXCEPT !.connections = insert(c.connections, <<dest_gate_id, dest_input_idx>>,
                                     <<source_gate_id, source_output_idx>>)]

set_output(c, source_gate_id, source_output_idx) ==
    [c EXCEPT !.output_mapping = Append(c.output_mapping, <<source_gate_id, source_output_idx>>)]

\* slice.get(idx): None past the end
get(v, idx) == IF idx < Len(v) THEN Some(v[idx + 1]) ELSE None

\* the evaluation's outcome: not yet called, inside forward, or what forward returned
Idle == [tag |-> "idle", msg |-> ""]
Running == [tag |-> "running", msg |-> ""]
Ok == [tag |-> "Ok", msg |-> ""]
Err(msg) == [tag |-> "Err", msg |-> msg]

\* deepest nesting of resolve_gate_output the evaluation is followed to (the
\* recursion of the source is bounded by the thread's stack only)
MaxDepth == 4

\* one activation of resolve_gate_output: just entered, or inside its input loop
Frame(gate_id, output_idx) ==
    [gate_id |-> gate_id, output_idx |-> output_idx, at |-> "enter", i |-> 0,
     gate_input_vec |-> << >>]

\* gate_input_vec[i] = val, and the loop moves to the next input
feed(frame, val) ==
    [frame EXCEPT !.gate_input_vec[frame.i + 1] = val, !.i = frame.i + 1]

Top == frames[Len(frames)]
Rest == SubSeq(frames, 1, Len(frames) - 1)

\* `?` on an Err: every activation returns it, and forward returns it; the
\* memo and the partial results are dropped
Fail(msg) ==
    /\ outcome' = Err(msg)
    /\ frames' = << >>
    /\ results' = << >>
    /\ gate_outputs' = EmptyMap

\* resolve_gate_output returns Ok(val): to the input loop of the calling
\* activation (gate_input_vec[i] = val), or to forward (results.push(val))
Return(val, memo) ==
    /\ gate_outputs' = memo
    /\ outcome' = outcome
    /\ IF Len(frames) = 1
       THEN /\ frames' = << >>
            /\ results' = Append(results, val)
       ELSE /\ frames' = [Rest EXCEPT ![Len(Rest)] =
                              feed(@, val)]
            /\ results' = results

\* mutant of forward_call: the length of the input vector is not checked
forward_call_unchecked ==
    /\ outcome = Idle
    /\ outcome' = Running
    /\ UNCHANGED <<circuit, circuit_inputs, gate_outputs, frames, results, evals>>
    /\ UNCHANGED <<emu_vars, panicked, last, reg, gui_vars>>

\* forward, up to the loop over the outputs: the length check
forward_call ==
    /\ outcome = Idle
    /\ IF Len(circuit_inputs) # circuit.input_size
       THEN outcome' = Err("Input size mismatch")
       ELSE outcome' = Running
    /\ UNCHANGED <<circuit, circuit_inputs, gate_outputs, frames, results, evals>>
    /\ UNCHANGED <<emu_vars, panicked, last, reg, gui_vars>>

\* forward, one turn of the loop over output_mapping (a call of
\* resolve_gate_output), or Ok(results) after the last
forward_loop ==
    /\ outcome = Running
    /\ frames = << >>
    /\ IF Len(results) < Len(circuit.output_mapping)
       THEN LET o == circuit.output_mapping[Len(results) + 1]
            IN /\ frames' = <<Frame(o[1], o[2])>>
               /\ outcome' = outcome
       ELSE /\ outcome' = Ok
            /\ frames' = frames
    /\ UNCHANGED <<circuit, circuit_inputs, gate_outputs, results, evals>>
    /\ UNCHANGED <<emu_vars, panicked, last, reg, gui_vars>>

\* mutant of resolve_enter: the memo is not consulted
resolve_enter_nomemo ==
    /\ outcome = Running
    /\ frames # << >>
    /\ Top.at = "enter"
    /\ LET gate_id == Top.gate_id
       IN IF gate_id \notin DOMAIN circuit.gates
          THEN Fail("Gate " \o ToString(gate_id) \o " not found")
          ELSE /\ frames' = [frames EXCEPT ![Len(frames)] =
                                [@ EXCEPT !.at = "loop",
                                          !.gate_input_vec =
                                              zeros(ncols(circuit.gates[gate_id].w1))]]
               /\ UNCHANGED <<gate_outputs, results, outcome>>
    /\ UNCHANGED <<circuit, circuit_inputs, evals>>
    /\ UNCHANGED <<emu_vars, panicked, last, reg, gui_vars>>

\* mutant of resolve_enter: a gate that is already being resolved further
\* down the stack is reported as a cycle
resolve_enter_cycle_check ==
    /\ outcome = Running
    /\ frames # << >>
    /\ Top.at = "enter"
    /\ LET gate_id == Top.gate_id
       IN IF gate_id \in DOMAIN gate_outputs
          THEN LET o == get(gate_outputs[gate_id], Top.output_idx)
               IN IF o = None
                  THEN Fail("Invalid output index for gate " \o ToString(gate_id))
                  ELSE Return(o[1], gate_outputs)
          ELSE IF gate_id \notin DOMAIN circuit.gates
          THEN Fail("Gate " \o ToString(gate_id) \o " not found")
          ELSE IF \E k \in 1..(Len(frames) - 1) : frames[k].gate_id = gate_id
          THEN Fail("Cycle detected")
          ELSE /\ frames' = [frames EXCEPT ![Len(frames)] =
                                [@ EXCEPT !.at = "loop",
                                          !.gate_input_vec =
                                              zeros(ncols(circuit.gates[gate_id].w1))]]
               /\ UNCHANGED <<gate_outputs, results, outcome>>
    /\ UNCHANGED <<circuit, circuit_inputs, evals>>
    /\ UNCHANGED <<emu_vars, panicked, last, reg, gui_vars>>

\* resolve_gate_output, entry: the memo, then the gate lookup and the zeroed
\* input vector
resolve_enter ==
    /\ outcome = Running
    /\ frames # << >>
    /\ Top.at = "enter"
    /\ LET gate_id == Top.gate_id
       IN IF gate_id \in DOMAIN gate_outputs
          THEN LET o == get(gate_outputs[gate_id], Top.output_idx)
               IN IF o = None
                  THEN Fail("Invalid output index for gate " \o ToString(gate_id))
                  ELSE Return(o[1], gate_outputs)
          ELSE IF gate_id \notin DOMAIN circuit.gates
          THEN Fail("Gate " \o ToString(gate_id) \o " not found")
          ELSE /\ frames' = [frames EXCEPT ![Len(frames)] =
                                [@ EXCEPT !.at = "loop",
                                          !.gate_input_vec =
                                              zeros(ncols(circuit.gates[gate_id].w1))]]
               /\ UNCHANGED <<gate_outputs, results, outcome>>
    /\ UNCHANGED <<circuit, circuit_inputs, evals>>
    /\ UNCHANGED <<emu_vars, panicked, last, reg, gui_vars>>

\* mutant of resolve_input: an input without a connection is an error
resolve_input_strict ==
    /\ outcome = Running
    /\ frames # << >>
    /\ Top.at = "loop"
    /\ Top.i < Len(Top.gate_input_vec)
    /\ LET key == <<Top.gate_id, Top.i>>
       IN IF key \in DOMAIN circuit.connections
          THEN LET src == circuit.connections[key]
               IN IF src[1] # None
                  THEN /\ Len(frames) < MaxDepth
                       /\ frames' = Append(frames, Frame(src[1][1], src[2]))
                       /\ UNCHANGED <<gate_outputs, results, outcome>>
                  ELSE LET o == get(circuit_inputs, src[2])
                       IN IF o = None
                          THEN Fail("Circuit input index out of bounds")
                          ELSE /\ frames' = [frames EXCEPT ![Len(frames)] =
                                                feed(@, o[1])]
                               /\ UNCHANGED <<gate_outputs, results, outcome>>
          ELSE Fail("Missing connection")
    /\ UNCHANGED <<circuit, circuit_inputs, evals>>
    /\ UNCHANGED <<emu_vars, panicked, last, reg, gui_vars>>

\* resolve_gate_output, one turn of the loop over the gate's inputs: a call
\* for a connected gate output, a read of the circuit input, or 0.0
resolve_input ==
    /\ outcome = Running
    /\ frames # << >>
    /\ Top.at = "loop"
    /\ Top.i < Len(Top.gate_input_vec)
    /\ LET key == <<Top.gate_id, Top.i>>
       IN IF key \in DOMAIN circuit.connections
          THEN LET src == circuit.connections[key]
               IN IF src[1] # None
                  THEN /\ Len(frames) < MaxDepth
                       /\ frames' = Append(frames, Frame(src[1][1], src[2]))
                       /\ UNCHANGED <<gate_outputs, results, outcome>>
                  ELSE LET o == get(circuit_inputs, src[2])
                       IN IF o = None
                          THEN Fail("Circuit input index out of bounds")
                          ELSE /\ frames' = [frames EXCEPT ![Len(frames)] =
                                                feed(@, o[1])]
                               /\ UNCHANGED <<gate_outputs, results, outcome>>
          ELSE /\ frames' = [frames EXCEPT ![Len(frames)] =
                                feed(@, 0)]
               /\ UNCHANGED <<gate_outputs, results, outcome>>
    /\ UNCHANGED <<circuit, circuit_inputs, evals>>
    /\ UNCHANGED <<emu_vars, panicked, last, reg, gui_vars>>

\* resolve_gate_output after the loop: the gate's forward pass, the memo
\* entry, and the requested element of the output
resolve_compute ==
    /\ outcome = Running
    /\ frames # << >>
    /\ Top.at = "loop"
    /\ Top.i = Len(Top.gate_input_vec)
    /\ LET gate_id    == Top.gate_id
           output_vec == NeuralGate_forward(circuit.gates[gate_id], Top.gate_input_vec)
           o          == get(output_vec, Top.output_idx)
       IN /\ evals' = [evals EXCEPT ![gate_id] = @ + 1]
          /\ IF o = None
             THEN Fail("Output index out of bounds after compute")
             ELSE Return(o[1], insert(gate_outputs, gate_id, output_vec))
    /\ UNCHANGED <<circuit, circuit_inputs>>
    /\ UNCHANGED <<emu_vars, panicked, last, reg, gui_vars>>

(***************************************************************************)
(* Bounds and the sets the inputs are drawn from                           *)
(***************************************************************************)
\* longest program loaded
MaxProg == 2
\* most direct calls made on a bus outside step
MaxCalls == 1
\* widest register of the register runs
MaxWidth == 2

\* the addresses at the region boundaries, and two low register addresses
Addrs == {0, 1, REG_END - 1, REG_END, FU_END - 1, FU_END, RAM_END - 1, RAM_END, ADDR_MAX}

\* an 8-wide pattern (the integer 5) and a second one (the integer 2)
A8 == <<ONE, 0, ONE, 0, 0, 0, 0, 0>>
B8 == <<0, ONE, 0, 0, 0, 0, 0, 0>>

\* a trainable unit of input size n: one hidden ReLU neuron summing the
\* inputs, one identity output 2h + 0.1
BaseFU_of(n) ==
    BaseFU_new(<<[j \in 1..n |-> 1]>>, <<0>>, <<<<2>>>>, <<1>>, "ReLU", "Identity")

\* source register 0: a 1-wide 1.0 or the 8-wide pattern
SrcRegs == {reg_with(1, <<ONE>>), reg_with(DEFAULT_LEN, A8)}
\* guard register 1: a zero-width register, exactly 0.5, or 1.0
GuardRegs == {reg_with(0, << >>), reg_with(1, <<HALF>>), reg_with(1, <<ONE>>)}
\* destination register 0x0FFF: absent, 1-wide, or 8-wide (both non-zero)
DestRegs == {None, Some(reg_with(1, <<HALF + 1>>)), Some(reg_with(DEFAULT_LEN, B8))}

\* populations of the unit and device regions
UnitLayouts ==
    { [units |-> EmptyMap, mmio |-> EmptyMap],
      [units |-> insert(insert(EmptyMap, REG_END, ProgramCounterFU_new),
                        FU_END - 1, BaseFU_of(1)),
       mmio  |-> insert(insert(EmptyMap, RAM_END, BaseFU_of(DEFAULT_LEN)),
                        ADDR_MAX, ProgramCounterFU_new)],
      [units |-> insert(insert(EmptyMap, REG_END, BaseFU_of(DEFAULT_LEN)),
                        FU_END - 1, StackPointerFU_new(DEFAULT_LEN)),
       mmio  |-> insert(EmptyMap, RAM_END, ProgramCounterFU_new)] }

\* a bus as the construction calls leave it: registers 0 and 1 (and 0x0FFF)
\* added and loaded, one RAM cell holding a 2-vector with a high first element
InitBuses ==
    { [registers   |-> LET r == insert(insert(EmptyMap, 0, r0), 1, r1)
                       IN IF d = None THEN r ELSE insert(r, REG_END - 1, d[1]),
       units       |-> l.units,
       ram         |-> insert(EmptyMap, FU_END, <<HALF + 1, 0>>),
       mmio        |-> l.mmio,
       fu_io_cache |-> EmptyMap]
      : r0 \in SrcRegs, r1 \in GuardRegs, d \in DestRegs, l \in UnitLayouts }

Guards == {None, Some(1)}

\* the instructions programs are made of
ProgOps ==
    { MoveOp(s, d, g) : s \in {0, ADDR_MAX}, d \in {REG_END - 1, REG_END, FU_END, RAM_END},
                         g \in Guards }

Programs == UNION { [1..n -> ProgOps] : n \in 0..MaxProg }

\* no register outside the bus is in use
NoRegister == reg = NeuralRegister_new(0)

\* no circuit is in use
NoCircuit ==
    /\ circuit = NeuralCircuit_new(0)
    /\ circuit_inputs = << >>
    /\ gate_outputs = EmptyMap
    /\ frames = << >>
    /\ results = << >>
    /\ outcome = Idle
    /\ evals = EmptyMap

\* no front end is running
NoGui ==
    /\ mutex = [holder |-> None, poisoned |-> FALSE]
    /\ threads = EmptyMap
    /\ executed = 0

\* no emulator is in use
NoEmulator ==
    /\ bus = SystemBus_new
    /\ program = << >>
    /\ pc = 0
    /\ total_steps = 0
    /\ logs = << >>
    /\ panicked = FALSE

(***************************************************************************)
(* The emulator run: a constructed bus, a loaded program, then step().     *)
(***************************************************************************)
Init ==
    /\ bus \in InitBuses
    /\ program \in Programs
    /\ pc = 0
    /\ total_steps = 0
    /\ logs = << >>
    /\ panicked = FALSE
    /\ last = Call("load_program", None, None, None, 0)
    /\ NoRegister
    /\ NoCircuit
    /\ NoGui

Next == step

Spec == Init /\ [][Next]_vars

(***************************************************************************)
(* The bus driven directly, as the unit tests of bus.rs and the loader do: *)
(* a constructed bus, then add_register / add_unit / add_mmio / execute.   *)
(***************************************************************************)
\* the instructions executed directly on the bus
BusOps ==
    { MoveOp(s, d, g) : s \in {0, REG_END - 1, REG_END, FU_END, RAM_END - 1}, d \in Addrs,
                         g \in {None, Some(1), Some(REG_END), Some(FU_END)} }

AddWidths == {1, DEFAULT_LEN}

InitBus ==
    /\ bus \in InitBuses
    /\ program = << >>
    /\ pc = 0
    /\ total_steps = 0
    /\ logs = << >>
    /\ panicked = FALSE
    /\ last = Call("new", None, None, None, 0)
    /\ NoRegister
    /\ NoCircuit
    /\ NoGui

\* bus.execute(&op)
ExecuteOp(op) ==
    /\ ~panicked
    /\ last.n < MaxCalls
    /\ LET e == execute(bus, op)
       IN IF e.panic
          THEN /\ panicked' = TRUE
               /\ last' = Call("execute", Some(op), None, None, last.n + 1)
               /\ UNCHANGED bus
          ELSE /\ bus' = e.bus
               /\ last' = Call("execute", Some(op), Some(e.status), None, last.n + 1)
               /\ UNCHANGED panicked
    /\ UNCHANGED <<program, pc, total_steps, logs, reg, circ_vars, gui_vars>>

\* bus.add_register(addr, width)
AddRegister(addr, width) ==
    /\ ~panicked
    /\ last.n < MaxCalls
    /\ bus' = add_register(bus, addr, width)
    /\ last' = Call("add_register", None, None, None, last.n + 1)
    /\ UNCHANGED <<program, pc, total_steps, logs, panicked, reg, circ_vars, gui_vars>>

\* bus.add_unit(base_addr, unit)
AddUnit(addr, unit) ==
    /\ ~panicked
    /\ last.n < MaxCalls
    /\ bus' = add_unit(bus, addr, unit)
    /\ last' = Call("add_unit", None, None, None, last.n + 1)
    /\ UNCHANGED <<program, pc, total_steps, logs, panicked, reg, circ_vars, gui_vars>>

\* bus.add_mmio(addr, device)
AddMmio(addr, device) ==
    /\ ~panicked
    /\ last.n < MaxCalls
    /\ bus' = add_mmio(bus, addr, device)
    /\ last' = Call("add_mmio", None, None, None, last.n + 1)
    /\ UNCHANGED <<program, pc, total_steps, logs, panicked, reg, circ_vars, gui_vars>>

NextBus ==
    \/ \E op \in BusOps : ExecuteOp(op)
    \/ \E a \in Addrs, w \in AddWidths : AddRegister(a, w)
    \/ \E a \in Addrs : AddUnit(a, ProgramCounterFU_new)
    \/ \E a \in Addrs : AddMmio(a, ProgramCounterFU_new)

SpecBus == InitBus /\ [][NextBus]_vars

(***************************************************************************)
(* One register driven directly, as the tests of register.rs do: new or    *)
(* from_symbolic, then write / read / to_symbolic / cleanup.               *)
(***************************************************************************)
\* the activations written: 0.0, exactly 0.5, 0.6, 1.0
Acts == {0, HALF, HALF + 1, ONE}

Widths == 0..MaxWidth

\* the vectors written: every length a register of the run can have, and one more
Values == UNION { [1..n -> Acts] : n \in 0..(MaxWidth + 1) }

InitReg ==
    /\ reg \in { NeuralRegister_new(w) : w \in Widths }
    /\ last = Call("new", None, None, None, 0)
    /\ NoEmulator
    /\ NoCircuit
    /\ NoGui

\* NeuralRegister::new(width)
RegNew(width) ==
    /\ reg' = NeuralRegister_new(width)
    /\ last' = Call("new", Some(width), None, None, 0)
    /\ UNCHANGED <<emu_vars, panicked, circ_vars, gui_vars>>

\* NeuralRegister::from_symbolic(width, val)
RegFromSymbolic(width, val) ==
    /\ reg' = NeuralRegister_from_symbolic(width, val)
    /\ last' = Call("from_symbolic", Some(<<width, val>>), None, None, 0)
    /\ UNCHANGED <<emu_vars, panicked, circ_vars, gui_vars>>

\* reg.write(&value)
RegWrite(value) ==
    /\ reg' = NeuralRegister_write(reg, value)
    /\ last' = Call("write", Some(value), None, None, 0)
    /\ UNCHANGED <<emu_vars, panicked, circ_vars, gui_vars>>

\* reg.read()
RegRead ==
    /\ last' = Call("read", None, None, Some(NeuralRegister_read(reg)), 0)
    /\ UNCHANGED <<reg, emu_vars, panicked, circ_vars, gui_vars>>

\* reg.to_symbolic()
RegToSymbolic ==
    /\ last' = Call("to_symbolic", None, None, Some(NeuralRegister_to_symbolic(reg)), 0)
    /\ UNCHANGED <<reg, emu_vars, panicked, circ_vars, gui_vars>>

\* reg.cleanup(); the call record keeps the state it was called on
RegCleanup ==
    /\ reg' = NeuralRegister_cleanup(reg)
    /\ last' = Call("cleanup", Some(reg.state), None, None, 0)
    /\ UNCHANGED <<emu_vars, panicked, circ_vars, gui_vars>>

NextReg ==
    \/ \E w \in Widths : RegNew(w)
    \/ \E w \in Widths : \E v \in 0..(Pow2(w) - 1) : RegFromSymbolic(w, v)
    \/ \E v \in Values : RegWrite(v)
    \/ RegRead
    \/ RegToSymbolic
    \/ RegCleanup

SpecReg == InitReg /\ [][NextReg]_vars

(***************************************************************************)
(* One circuit evaluated once, as verify_circuits does: a circuit built    *)
(* with add_gate / connect / set_output, then forward on an input vector.  *)
(***************************************************************************)
\* ideal gates on 0.0 / 1.0: AND = relu(a + b - 1), XOR = relu(a + b) -
\* 2 relu(a + b - 1), OR = relu(a + b) - relu(a + b - 1)
AND_gate == NeuralGate_new(<<<<1, 1>>>>, <<-ONE>>, <<<<1>>>>, <<0>>, "ReLU", "Identity")
XOR_gate ==
    NeuralGate_new(<<<<1, 1>>, <<1, 1>>>>, <<0, -ONE>>, <<<<1, -2>>>>, <<0>>, "ReLU", "Identity")
OR_gate ==
    NeuralGate_new(<<<<1, 1>>, <<1, 1>>>>, <<0, -ONE>>, <<<<1, -1>>>>, <<0>>, "ReLU", "Identity")

\* test_half_adder: gate 0 = XOR(A, B) is the sum, gate 1 = AND(A, B) the carry
half_adder ==
    LET c0 == add_gate(add_gate(NeuralCircuit_new(2), XOR_gate), AND_gate)
        c1 == connect(connect(c0, None, 0, 0, 0), None, 1, 0, 1)
        c2 == connect(connect(c1, None, 0, 1, 0), None, 1, 1, 1)
    IN set_output(set_output(c2, 0, 0), 1, 0)

\* test_full_adder before the carry-in is wired to the second AND (gate 3,
\* input 1) and before the outputs are declared: gates 0, 1 = XOR, AND of
\* (A, B); gates 2, 3 = XOR, AND of (gate 0, Cin); gate 4 = OR(gate 1, gate 3)
full_adder_open ==
    LET c0 == add_gate(add_gate(NeuralCircuit_new(3), XOR_gate), AND_gate)
        c1 == connect(connect(c0, None, 0, 0, 0), None, 1, 0, 1)
        c2 == connect(connect(c1, None, 0, 1, 0), None, 1, 1, 1)
        c3 == add_gate(add_gate(c2, XOR_gate), AND_gate)
        c4 == connect(connect(c3, Some(0), 0, 2, 0), Some(0), 0, 3, 0)
        c5 == connect(c4, None, 2, 2, 1)
        c6 == add_gate(c5, OR_gate)
    IN connect(connect(c6, Some(1), 0, 4, 0), Some(3), 0, 4, 1)

\* test_full_adder: outputs (sum, carry-out) = (gate 2, gate 4)
full_adder == set_output(set_output(connect(full_adder_open, None, 2, 3, 1), 2, 0), 4, 0)

\* ripple_adder.rs: the number of full-adder stages
ADDER_BITS == 4

\* one pass of the loop over bit with `carry_src = (Some(ha1_and), 0)`: the
\* carry of the first half adder alone goes on to the next stage
ripple_stage_ha1_carry(st, bit) ==
    LET a_idx   == bit * 2
        b_idx   == bit * 2 + 1
        ha1_xor == st.circuit.next_gate_id
        ha1_and == ha1_xor + 1
        ha2_xor == ha1_xor + 2
        ha2_and == ha1_xor + 3
        or_gate == ha1_xor + 4
        c0 == add_gate(add_gate(st.circuit, XOR_gate), AND_gate)
        c1 == connect(connect(c0, None, a_idx, ha1_xor, 0), None, b_idx, ha1_xor, 1)
        c2 == connect(connect(c1, None, a_idx, ha1_and, 0), None, b_idx, ha1_and, 1)
        c3 == add_gate(add_gate(c2, XOR_gate), AND_gate)
        c4 == connect(connect(c3, Some(ha1_xor), 0, ha2_xor, 0), Some(ha1_xor), 0, ha2_and, 0)
        c5 == connect(connect(c4, st.carry_src[1], st.carry_src[2], ha2_xor, 1),
                      st.carry_src[1], st.carry_src[2], ha2_and, 1)
        c6 == add_gate(c5, OR_gate)
        c7 == connect(connect(c6, Some(ha1_and), 0, or_gate, 0), Some(ha2_and), 0, or_gate, 1)
    IN [circuit |-> c7, carry_src |-> <<Some(ha1_and), 0>>,
        sum_bit_nodes |-> Append(st.sum_bit_nodes, ha2_xor)]

\* one pass of the loop over bit in test_ripple_carry_adder: a full adder on
\* (A_bit, B_bit, carry_src) made of five gates, whose ids are the ones
\* add_gate hands out; its OR gate becomes the next stage's carry_src
ripple_stage(st, bit) ==
    LET a_idx   == bit * 2
        b_idx   == bit * 2 + 1
        ha1_xor == st.circuit.next_gate_id
        ha1_and == ha1_xor + 1
        ha2_xor == ha1_xor + 2
        ha2_and == ha1_xor + 3
        or_gate == ha1_xor + 4
        c0 == add_gate(add_gate(st.circuit, XOR_gate), AND_gate)
        c1 == connect(connect(c0, None, a_idx, ha1_xor, 0), None, b_idx, ha1_xor, 1)
        c2 == connect(connect(c1, None, a_idx, ha1_and, 0), None, b_idx, ha1_and, 1)
        c3 == add_gate(add_gate(c2, XOR_gate), AND_gate)
        c4 == connect(connect(c3, Some(ha1_xor), 0, ha2_xor, 0), Some(ha1_xor), 0, ha2_and, 0)
        c5 == connect(connect(c4, st.carry_src[1], st.carry_src[2], ha2_xor, 1),
                      st.carry_src[1], st.carry_src[2], ha2_and, 1)
        c6 == add_gate(c5, OR_gate)
        c7 == connect(connect(c6, Some(ha1_and), 0, or_gate, 0), Some(ha2_and), 0, or_gate, 1)
    IN [circuit |-> c7, carry_src |-> <<Some(or_gate), 0>>,
        sum_bit_nodes |-> Append(st.sum_bit_nodes, ha2_xor)]

\* for bit in 0..4 { ... }
RECURSIVE ripple_stages(_, _)
ripple_stages(st, bit) ==
    IF bit >= ADDER_BITS THEN st ELSE ripple_stages(ripple_stage(st, bit), bit + 1)

\* for node in sum_bit_nodes { circuit.set_output(node, 0) }
RECURSIVE set_outputs(_, _, _)
set_outputs(c, nodes, k) ==
    IF k > Len(nodes) THEN c ELSE set_outputs(set_output(c, nodes[k], 0), nodes, k + 1)

\* test_ripple_carry_adder: inputs A0, B0, ..., A3, B3, Cin (index 8); the
\* outputs are the four sum bits and then the last stage's carry
ripple_adder ==
    LET st == ripple_stages([circuit |-> NeuralCircuit_new(2 * ADDER_BITS + 1),
                             carry_src |-> <<None, 2 * ADDER_BITS>>,
                             sum_bit_nodes |-> << >>], 0)
    IN set_output(set_outputs(st.circuit, st.sum_bit_nodes, 1), st.carry_src[1][1], 0)

\* what the second AND's input 1 is wired to: nothing, the carry-in, a
\* circuit input that does not exist, a gate that does not exist, an output
\* the first XOR does not have, outputs 0 and 1 of the spare gate 5, and the
\* OR gate that itself consumes the second AND (a cycle)
Wirings ==
    { << >>, <<None, 2>>, <<None, 3>>, <<Some(9), 0>>, <<Some(0), 1>>,
      <<Some(5), 0>>, <<Some(5), 1>>, <<Some(4), 0>> }

\* a third declared output: none, the sum again, the spare gate, a gate that
\* does not exist, an output index the (memoized) sum gate does not have, one
\* the spare gate does not have
ExtraOutputs == { << >>, <<2, 0>>, <<5, 0>>, <<9, 0>>, <<2, 1>>, <<5, 1>> }

\* the full adder with a spare AND gate 5 on (A, B), a connection to an input
\* index gate 5 does not have, and the chosen wiring and third output
full_adder_with(wiring, extra) ==
    LET c0 == add_gate(full_adder_open, AND_gate)
        c1 == connect(connect(c0, None, 0, 5, 0), None, 1, 5, 1)
        c2 == connect(c1, Some(9), 0, 5, 2)
        c3 == IF wiring = << >> THEN c2 ELSE connect(c2, wiring[1], wiring[2], 3, 1)
        c4 == set_output(set_output(c3, 2, 0), 4, 0)
    IN IF extra = << >> THEN c4 ELSE set_output(c4, extra[1], extra[2])

Circuits ==
    {half_adder, full_adder, ripple_adder}
      \cup { full_adder_with(w, x) : w \in Wirings, x \in ExtraOutputs }

\* the input vectors: every 0.0 / 1.0 vector of the declared size, and a
\* vector one shorter and one longer
InputsOf(c) ==
    [1..c.input_size -> {0, ONE}] \cup {zeros(c.input_size - 1), zeros(c.input_size + 1)}

InitCircuit ==
    /\ circuit \in Circuits
    /\ circuit_inputs \in InputsOf(circuit)
    /\ gate_outputs = EmptyMap
    /\ frames = << >>
    /\ results = << >>
    /\ outcome = Idle
    /\ evals = [g \in DOMAIN circuit.gates |-> 0]
    /\ last = Call("new", None, None, None, 0)
    /\ NoEmulator
    /\ NoRegister
    /\ NoGui

NextCircuit ==
    \/ forward_call
    \/ forward_loop
    \/ resolve_enter
    \/ resolve_input
    \/ resolve_compute

SpecCircuit == InitCircuit /\ [][NextCircuit]_vars

\* forward runs on one thread and nothing suspends it: it takes its next
\* step whenever it has one
SpecCircuitFair == SpecCircuit /\ WF_vars(NextCircuit)

(***************************************************************************)
(* The symbolic conversions alone, as test_symbolic_roundtrip uses them:   *)
(* from_symbolic on any width up to MaxSymWidth and any value that fits,   *)
(* then to_symbolic.                                                       *)
(***************************************************************************)
\* the widest register converted (the test converts 8 bits)
MaxSymWidth == 8

SymWidths == 0..MaxSymWidth

NextSym ==
    \/ \E w \in SymWidths : \E v \in 0..(Pow2(w) - 1) : RegFromSymbolic(w, v)
    \/ RegToSymbolic

SpecSym == InitReg /\ [][NextSym]_vars

(***************************************************************************)
(* gui.rs: the front end holds the emulator in an Arc<Mutex<..>> and       *)
(* reaches it only through lock().unwrap().  Three call sites are followed *)
(* as three threads: the run loop of update (lock, step, drop), the Step   *)
(* button (lock, step, drop) and a rendering read (lock, read, drop).      *)
(* step() is followed statement by statement, so that a state between two  *)
(* of its statements is a state of the model.                              *)
(***************************************************************************)
Steppers == {"run", "button"}
Readers == {"render"}
Threads == Steppers \cup Readers

\* a thread outside any call on the emulator, nothing read yet
IdleThread == [at |-> "idle", exec_log |-> "", seen |-> None]

at(t, where) == [threads EXCEPT ![t].at = where]

\* what a rendering read takes from the emulator, with the number of
\* instructions the bus has executed at that moment
Snapshot ==
    [pc |-> pc, total_steps |-> total_steps, logs |-> Len(logs), executed |-> executed]

\* mutant of lock: the lock is handed out while another thread holds it
lock_shared(t) ==
    /\ threads[t].at = "idle"
    /\ IF mutex.poisoned
       THEN /\ threads' = at(t, "panicked")
            /\ UNCHANGED mutex
       ELSE /\ mutex' = [mutex EXCEPT !.holder = Some(t)]
            /\ threads' = at(t, "locked")
    /\ UNCHANGED <<emu_vars, executed>>
    /\ UNCHANGED <<panicked, last, reg, circ_vars>>

\* self.system.lock().unwrap(): blocks while the mutex is held; on a
\* poisoned mutex lock() returns Err and unwrap panics in the caller
lock(t) ==
    /\ threads[t].at = "idle"
    /\ mutex.holder = None
    /\ IF mutex.poisoned
       THEN /\ threads' = at(t, "panicked")
            /\ UNCHANGED mutex
       ELSE /\ mutex' = [mutex EXCEPT !.holder = Some(t)]
            /\ threads' = at(t, "locked")
    /\ UNCHANGED <<emu_vars, executed>>
    /\ UNCHANGED <<panicked, last, reg, circ_vars>>

\* step(), up to `let exec_log = self.bus.execute(op)`: a halted emulator
\* returns false; a panic inside execute unwinds through the guard, which
\* poisons the mutex and releases it
step_execute(t) ==
    /\ t \in Steppers
    /\ threads[t].at = "locked"
    /\ IF pc >= Len(program)
       THEN /\ threads' = at(t, "returned")
            /\ UNCHANGED <<bus, mutex, executed>>
       ELSE LET e == execute(bus, program[pc + 1])
            IN IF e.panic
               THEN /\ threads' = at(t, "panicked")
                    /\ mutex' = [holder |-> None, poisoned |-> TRUE]
                    /\ UNCHANGED <<bus, executed>>
               ELSE /\ bus' = e.bus
                    /\ executed' = executed + 1
                    /\ threads' = [threads EXCEPT ![t].at = "executed",
                                                  ![t].exec_log = e.status]
                    /\ UNCHANGED mutex
    /\ UNCHANGED <<program, pc, total_steps, logs>>
    /\ UNCHANGED <<panicked, last, reg, circ_vars>>

\* self.logs.push(format!(...))
step_log(t) ==
    /\ threads[t].at = "executed"
    /\ logs' = Append(logs, log_entry(total_steps, pc, threads[t].exec_log))
    /\ threads' = at(t, "logged")
    /\ UNCHANGED <<bus, program, pc, total_steps, mutex, executed>>
    /\ UNCHANGED <<panicked, last, reg, circ_vars>>

\* self.bus.tick_all()
step_tick(t) ==
    /\ threads[t].at = "logged"
    /\ bus' = tick_all(bus)
    /\ threads' = at(t, "ticked")
    /\ UNCHANGED <<program, pc, total_steps, logs, mutex, executed>>
    /\ UNCHANGED <<panicked, last, reg, circ_vars>>

\* self.pc += 1
step_pc(t) ==
    /\ threads[t].at = "ticked"
    /\ pc' = pc + 1
    /\ threads' = at(t, "advanced")
    /\ UNCHANGED <<bus, program, total_steps, logs, mutex, executed>>
    /\ UNCHANGED <<panicked, last, reg, circ_vars>>

\* self.total_steps += 1; true
step_count(t) ==
    /\ threads[t].at = "advanced"
    /\ total_steps' = total_steps + 1
    /\ threads' = at(t, "returned")
    /\ UNCHANGED <<bus, program, pc, logs, mutex, executed>>
    /\ UNCHANGED <<panicked, last, reg, circ_vars>>

\* the run loop's `for _ in 0..self.steps_per_frame`: another step() under
\* the same guard after one that returned true
step_again(t) ==
    /\ t = "run"
    /\ threads[t].at = "returned"
    /\ pc < Len(program)
    /\ threads' = at(t, "locked")
    /\ UNCHANGED <<emu_vars, mutex, executed>>
    /\ UNCHANGED <<panicked, last, reg, circ_vars>>

\* a read of the emulator through the guard
read(t) ==
    /\ t \in Readers
    /\ threads[t].at = "locked"
    /\ threads' = [threads EXCEPT ![t].at = "returned", ![t].seen = Some(Snapshot)]
    /\ UNCHANGED <<emu_vars, mutex, executed>>
    /\ UNCHANGED <<panicked, last, reg, circ_vars>>

\* the guard goes out of scope
drop(t) ==
    /\ threads[t].at = "returned"
    /\ mutex' = [mutex EXCEPT !.holder = None]
    /\ threads' = at(t, "idle")
    /\ UNCHANGED <<emu_vars, executed>>
    /\ UNCHANGED <<panicked, last, reg, circ_vars>>



\* a move between registers, a move into the unit at 0x1000, and a guarded
\* move from an unpopulated device address into RAM
GuiOps ==
    { MoveOp(0, REG_END - 1, None), MoveOp(0, REG_END, None), MoveOp(ADDR_MAX, FU_END, Some(1)) }

\* longest program the front end runs
MaxGuiProg == 2

GuiPrograms == UNION { [1..n -> GuiOps] : n \in 0..MaxGuiProg }

\* the buses with a high guard register and an 8-wide destination register
GuiBuses ==
    { b \in InitBuses : /\ b.registers[1] = reg_with(1, <<ONE>>)
                        /\ REG_END - 1 \in DOMAIN b.registers
                        /\ b.registers[REG_END - 1].width = DEFAULT_LEN }

InitGui ==
    /\ bus \in GuiBuses
    /\ program \in GuiPrograms
    /\ pc = 0
    /\ total_steps = 0
    /\ logs = << >>
    /\ panicked = FALSE
    /\ last = Call("load_program", None, None, None, 0)
    /\ mutex = [holder |-> None, poisoned |-> FALSE]
    /\ threads = [t \in Threads |-> IdleThread]
    /\ executed = 0
    /\ NoRegister
    /\ NoCircuit

NextGui ==
    \/ \E t \in Threads : lock(t)
    \/ \E t \in Threads : step_execute(t)
    \/ \E t \in Threads : step_log(t)
    \/ \E t \in Threads : step_tick(t)
    \/ \E t \in Threads : step_pc(t)
    \/ \E t \in Threads : step_count(t)
    \/ \E t \in Threads : step_again(t)
    \/ \E t \in Threads : read(t)
    \/ \E t \in Threads : drop(t)

SpecGui == InitGui /\ [][NextGui]_vars

(***************************************************************************)
(* Reads of the unit and device regions: a program that may first move     *)
(* register 0 into a unit or device, and then moves from, or is guarded    *)
(* by, addresses of those regions.                                         *)
(***************************************************************************)
\* most instructions that follow the optional first write
MaxReads == 1

\* register 0 moved into the unit at 0x1000 or the device at 0x8000
UnitWrites == { MoveOp(0, d, None) : d \in {REG_END, RAM_END} }

\* sources and guards: a populated and an unpopulated unit address, and two
\* device addresses; destinations: a register, a RAM cell, a unit, a device
UnitReads ==
    { MoveOp(s, d, g) : s \in {REG_END, REG_END + 1, RAM_END, ADDR_MAX},
                         d \in {REG_END - 1, FU_END, REG_END, RAM_END},
                         g \in {None, Some(REG_END), Some(ADDR_MAX)} }

ReadPrograms ==
    LET reads == UNION { [1..n -> UnitReads] : n \in 1..MaxReads }
    IN reads \cup { <<w>> \o r : w \in UnitWrites, r \in reads }

\* the buses whose guard register 1 holds 1.0
ReadBuses == { b \in InitBuses : b.registers[1] = reg_with(1, <<ONE>>) }

InitRead ==
    /\ bus \in ReadBuses
    /\ program \in ReadPrograms
    /\ pc = 0
    /\ total_steps = 0
    /\ logs = << >>
    /\ panicked = FALSE
    /\ last = Call("load_program", None, None, None, 0)
    /\ NoRegister
    /\ NoCircuit
    /\ NoGui

SpecRead == InitRead /\ [][step]_vars

(***************************************************************************)
(* Programs loaded into a running emulator: step() and load_program in any *)
(* order.                                                                  *)
(***************************************************************************)
\* mutant of load_program: loading a program restarts it
load_program_reset(prog) ==
    /\ ~panicked
    /\ program' = prog
    /\ pc' = 0
    /\ last' = Call("load_program", Some(prog), None, None, last.n)
    /\ UNCHANGED <<bus, total_steps, logs, panicked, reg, circ_vars, gui_vars>>

\* SystemEmulator::load_program: self.program = prog
load_program(prog) ==
    /\ ~panicked
    /\ program' = prog
    /\ last' = Call("load_program", Some(prog), None, None, last.n)
    /\ UNCHANGED <<bus, pc, total_steps, logs, panicked, reg, circ_vars, gui_vars>>

\* longest program loaded into a running emulator
MaxLoadProg == 2

LoadPrograms == UNION { [1..n -> GuiOps] : n \in 0..MaxLoadProg }

InitLoad ==
    /\ bus \in GuiBuses
    /\ program \in LoadPrograms
    /\ pc = 0
    /\ total_steps = 0
    /\ logs = << >>
    /\ panicked = FALSE
    /\ last = Call("new", None, None, None, 0)
    /\ NoRegister
    /\ NoCircuit
    /\ NoGui

NextLoad ==
    \/ step
    \/ \E prog \in LoadPrograms : load_program(prog)

SpecLoad == InitLoad /\ [][NextLoad]_vars

(***************************************************************************)
(* Properties.  The helpers below state what a location holds directly     *)
(* from the maps, without the bus's own accessors.                         *)
(***************************************************************************)
IsReg(b, a) == a >= 0 /\ a < 4096 /\ a \in DOMAIN b.registers
IsRamAddr(a) == a >= 8192 /\ a < 32768
IsRam(b, a) == IsRamAddr(a) /\ a \in DOMAIN b.ram

\* the first activation of the guard location; a location holding nothing counts as 0.0
GuardFirst(b, g) ==
    IF IsReg(b, g) /\ Len(b.registers[g].state) > 0 THEN b.registers[g].state[1]
    ELSE IF IsRam(b, g) /\ Len(b.ram[g]) > 0 THEN b.ram[g][1]
    ELSE 0

\* this transition is a direct call of bus.execute
ExecCalled == last'.call = "execute" /\ last'.n = last.n + 1

\* this transition is a call of step()
StepCalled == last'.call = "step"

\* C1: execute(op) with a guard whose location's first activation is <= 0.5
\* (0.5 included) returns the skip status and leaves the whole bus unchanged:
\* registers, units, RAM, devices and the unit I/O cache.
C1_GuardLowSkips ==
    [][ExecCalled =>
          LET op == last'.op[1]
          IN (op.guard # None /\ GuardFirst(bus, op.guard[1]) <= 5) =>
                /\ last'.status = Some(SKIPPED)
                /\ bus' = bus
                /\ ~panicked']_vars

\* a skipped move from a loaded register to a different-valued register, its
\* guard register at exactly 0.5
C1_Witness ==
    /\ last.call = "execute"
    /\ last.op = Some(MoveOp(0, 4095, Some(1)))
    /\ last.status = Some(SKIPPED)
    /\ IsReg(bus, 1) /\ bus.registers[1].state = <<5>>
    /\ IsReg(bus, 0) /\ IsReg(bus, 4095)
    /\ bus.registers[0].width = bus.registers[4095].width
    /\ bus.registers[0].state # bus.registers[4095].state

\* C2: execute(op) with no guard, or with a guard whose location's first
\* activation is > 0.5, does not return the skip status (so the skip status
\* means a guarded op with a low guard); between two populated registers of
\* equal width it leaves in the destination exactly the source's value, leaves
\* the source's value in the source, and reports the move into that register.
C2_GuardHighMoves ==
    [][ExecCalled =>
          LET op   == last'.op[1]
              high == op.guard = None \/ GuardFirst(bus, op.guard[1]) > 5
          IN /\ high => last'.status # Some(SKIPPED)
             /\ last'.status = Some(SKIPPED) => ~high
             /\ (high /\ IsReg(bus, op.src) /\ IsReg(bus, op.dest)
                      /\ bus.registers[op.src].width = bus.registers[op.dest].width) =>
                  /\ bus'.registers[op.dest].state = bus.registers[op.src].state
                  /\ bus'.registers[op.src].state = bus.registers[op.src].state
                  /\ bus'.registers[op.dest].width = bus.registers[op.dest].width
                  /\ last'.status =
                        Some(Moved(bus.registers[op.src].state, "R" \o ToString(op.dest)))]_vars

\* register 0x0FFF (0.6) moved into the 1-wide register 1 under a RAM guard of 0.6
C2_Witness ==
    /\ last.call = "execute"
    /\ last.op = Some(MoveOp(4095, 1, Some(8192)))
    /\ last.status = Some("Moved [0.6] to R1")
    /\ IsReg(bus, 1) /\ bus.registers[1].state = <<6>>
    /\ IsReg(bus, 4095) /\ bus.registers[4095].state = <<6>>
    /\ IsRam(bus, 8192) /\ bus.ram[8192][1] = 6

\* C3: step() returns false exactly when pc >= program length; such a call
\* changes neither pc, total_steps, logs, the program nor the bus; pc never
\* exceeds the program length; once step() has returned false it returns
\* false on every later call.
C3_HaltsExactlyAtEnd ==
    /\ [](pc <= Len(program))
    /\ [][StepCalled =>
             /\ (last'.ret = Some(FALSE)) <=> (pc >= Len(program))
             /\ last'.ret = Some(FALSE) => UNCHANGED <<bus, program, pc, total_steps, logs>>
             /\ last.ret = Some(FALSE) => last'.ret = Some(FALSE)]_vars

\* step() has returned false after a two-instruction program ran to its end
C3_Witness ==
    /\ last.call = "step"
    /\ last.ret = Some(FALSE)
    /\ Len(program) = 2
    /\ pc = 2
    /\ total_steps = 2
    /\ Len(logs) = 2

\* C4: when pc < program length, one step() executes exactly program[pc] on
\* the bus, ticks all units, appends one log entry tagged with the previous
\* total_steps and pc, increases pc and total_steps by one, and returns true.
C4_StepExecutesOne ==
    [][(StepCalled /\ pc < Len(program)) =>
          LET op == program[pc + 1]
              e  == execute(bus, op)
          IN /\ last'.ret = Some(TRUE)
             /\ last'.op = Some(op)
             /\ bus' = tick_all(e.bus)
             /\ logs' = Append(logs, log_entry(total_steps, pc, e.status))
             /\ pc' = pc + 1
             /\ total_steps' = total_steps + 1
             /\ program' = program]_vars

\* C5: from a new emulator with a program of length n, step() returns true
\* exactly n times and then false: before n instructions have run another
\* step() can always be taken, and false is returned only after exactly n.
C5_RunsToHalt ==
    /\ total_steps <= Len(program)
    /\ last.ret = Some(FALSE) => (total_steps = Len(program) /\ pc = Len(program))
    /\ total_steps < Len(program) => ENABLED step

\* C6: step() never fails: every call completes and returns true or false.
C6_StepNeverFails ==
    /\ ~panicked
    /\ last.call = "step" => last.ret \in {Some(TRUE), Some(FALSE)}

\* C7: a performed write is dispatched by the destination address alone, the
\* regions meeting exactly at 0x1000, 0x2000 and 0x8000: 0x0000..0x0FFF
\* stores into the register map, 0x1000..0x1FFF invokes the unit there,
\* 0x2000..0x7FFF stores into RAM, 0x8000..0xFFFF invokes the device there;
\* the maps of the other regions are untouched.
C7_WriteDispatchByAddress ==
    [][(ExecCalled /\ last'.status # None /\ last'.status # Some(SKIPPED)) =>
          LET op   == last'.op[1]
              d    == op.dest
              data == read_mem(bus, op.src)
          IN /\ (d >= 0 /\ d <= 4095) =>
                   /\ bus'.units = bus.units /\ bus'.ram = bus.ram
                   /\ bus'.mmio = bus.mmio /\ bus'.fu_io_cache = bus.fu_io_cache
                   /\ DOMAIN bus'.registers = DOMAIN bus.registers
                   /\ (d \in DOMAIN bus.registers /\ Len(data) = bus.registers[d].width)
                         => bus'.registers[d].state = data
             /\ (d >= 4096 /\ d <= 8191) =>
                   /\ bus'.registers = bus.registers /\ bus'.ram = bus.ram
                   /\ bus'.mmio = bus.mmio
                   /\ DOMAIN bus'.units = DOMAIN bus.units
                   /\ IF d \in DOMAIN bus.units
                      THEN /\ bus'.units[d] = forward(bus.units[d], data).unit
                           /\ d \in DOMAIN bus'.fu_io_cache
                           /\ bus'.fu_io_cache[d] = <<data, forward(bus.units[d], data).output>>
                      ELSE bus' = bus
             /\ (d >= 8192 /\ d <= 32767) =>
                   /\ bus'.registers = bus.registers /\ bus'.units = bus.units
                   /\ bus'.mmio = bus.mmio /\ bus'.fu_io_cache = bus.fu_io_cache
                   /\ d \in DOMAIN bus'.ram /\ bus'.ram[d] = data
             /\ (d >= 32768 /\ d <= 65535) =>
                   /\ bus'.registers = bus.registers /\ bus'.units = bus.units
                   /\ bus'.ram = bus.ram
                   /\ DOMAIN bus'.mmio = DOMAIN bus.mmio
                   /\ IF d \in DOMAIN bus.mmio
                      THEN /\ bus'.mmio[d] = forward(bus.mmio[d], data).unit
                           /\ d \in DOMAIN bus'.fu_io_cache
                           /\ bus'.fu_io_cache[d] = <<data, forward(bus.mmio[d], data).output>>
                      ELSE bus' = bus]_vars

\* a 1-wide 1.0 moved into the trainable unit at 0x1FFF, which answered 2.1
C7_Witness ==
    /\ last.call = "execute"
    /\ last.op = Some(MoveOp(0, 8191, None))
    /\ last.status = Some("Moved [1] to FU[0x1FFF]")
    /\ 8191 \in DOMAIN bus.fu_io_cache
    /\ bus.fu_io_cache[8191] = << <<10>>, <<21>> >>

\* C8: every populated address belongs to exactly one region: register keys
\* in [0x0000,0x1000), unit keys in [0x1000,0x2000), RAM keys in
\* [0x2000,0x8000), device keys in [0x8000,0xFFFF].
C8_RegionsDisjoint ==
    /\ \A a \in DOMAIN bus.registers : a >= 0 /\ a < 4096
    /\ \A a \in DOMAIN bus.units : a >= 4096 /\ a < 8192
    /\ \A a \in DOMAIN bus.ram : a >= 8192 /\ a < 32768
    /\ \A a \in DOMAIN bus.mmio : a >= 32768 /\ a <= 65535

\* a source address in the register or RAM region that holds nothing
UnpopulatedSrc(b, a) ==
    \/ (a >= 0 /\ a < 4096 /\ a \notin DOMAIN b.registers)
    \/ (IsRamAddr(a) /\ a \notin DOMAIN b.ram)

GuardPasses(b, op) == op.guard = None \/ GuardFirst(b, op.guard[1]) > 5

AllZero(v) == \A i \in 1..Len(v) : v[i] = 0

\* C9 as claimed: a performed move from an unpopulated source leaves the
\* destination register or RAM cell reading all zeros, whatever the width of
\* the destination register.
C9_UnpopulatedSourceZeroes ==
    [][(ExecCalled /\ UnpopulatedSrc(bus, last'.op[1].src) /\ GuardPasses(bus, last'.op[1])) =>
          LET d == last'.op[1].dest
          IN /\ IsReg(bus, d) => (~panicked' /\ AllZero(bus'.registers[d].state))
             /\ IsRamAddr(d) => (~panicked' /\ d \in DOMAIN bus'.ram /\ AllZero(bus'.ram[d]))]_vars

\* C9 as amended: the move carries the all-zero vector of length 8; a RAM
\* destination and a register of width 8 read as eight zeros afterwards, and
\* a register of any other width rejects the write and keeps its state.
C9_UnpopulatedSourceZeroes8 ==
    [][(ExecCalled /\ UnpopulatedSrc(bus, last'.op[1].src) /\ GuardPasses(bus, last'.op[1])) =>
          LET d == last'.op[1].dest
          IN /\ (IsReg(bus, d) /\ bus.registers[d].width = 8) =>
                   (~panicked' /\ bus'.registers[d] = [state |-> <<0, 0, 0, 0, 0, 0, 0, 0>>, width |-> 8])
             /\ (IsReg(bus, d) /\ bus.registers[d].width # 8) =>
                   (~panicked' /\ bus'.registers[d] = bus.registers[d])
             /\ IsRamAddr(d) =>
                   (~panicked' /\ d \in DOMAIN bus'.ram /\ bus'.ram[d] = <<0, 0, 0, 0, 0, 0, 0, 0>>)
             /\ (IsReg(bus, d) \/ IsRamAddr(d)) =>
                   last'.status = Some(Moved(<<0, 0, 0, 0, 0, 0, 0, 0>>,
                                             IF IsReg(bus, d) THEN "R" \o ToString(d)
                                             ELSE "RAM[0x" \o Hex(d) \o "]"))]_vars

\* the empty RAM cell 0x7FFF moved into the 8-wide register 0x0FFF, which held a pattern
C9_Witness ==
    /\ last.call = "execute"
    /\ last.op = Some(MoveOp(32767, 4095, None))
    /\ last.status = Some("Moved [0, 0, 0, 0, 0, 0, 0, 0] to R4095")
    /\ 32767 \notin DOMAIN bus.ram
    /\ IsReg(bus, 4095)
    /\ bus.registers[4095] = [state |-> <<0, 0, 0, 0, 0, 0, 0, 0>>, width |-> 8]

\* a destination in the register, unit or device region that holds nothing
UnpopulatedDest(b, a) ==
    \/ (a >= 0 /\ a < 4096 /\ a \notin DOMAIN b.registers)
    \/ (a >= 4096 /\ a < 8192 /\ a \notin DOMAIN b.units)
    \/ (a >= 32768 /\ a <= 65535 /\ a \notin DOMAIN b.mmio)

\* C10: a performed move whose destination is an unpopulated register, unit
\* or device address changes no bus state (no map gains an entry, no unit is
\* invoked; the step's tick is all that happens to the bus), its status names
\* the unknown region, and the step returns true and advances pc by one.
C10_UnknownDestStillSteps ==
    [][(StepCalled /\ pc < Len(program) /\ UnpopulatedDest(bus, program[pc + 1].dest)
                   /\ GuardPasses(bus, program[pc + 1])) =>
          LET op   == program[pc + 1]
              data == IF IsReg(bus, op.src) THEN bus.registers[op.src].state
                      ELSE IF IsRam(bus, op.src) THEN bus.ram[op.src]
                      ELSE <<0, 0, 0, 0, 0, 0, 0, 0>>
          IN /\ last'.ret = Some(TRUE)
             /\ pc' = pc + 1
             /\ total_steps' = total_steps + 1
             /\ bus'.registers = bus.registers
             /\ bus'.ram = bus.ram
             /\ bus'.fu_io_cache = bus.fu_io_cache
             /\ bus' = tick_all(bus)
             /\ last'.status = Some(Moved(data, "Unknown[0x" \o Hex(op.dest) \o "]"))
             /\ logs' = Append(logs, log_entry(total_steps, pc, last'.status[1]))]_vars

\* the first instruction moved register 0 (1.0) to the empty unit address 0x1000
C10_Witness ==
    /\ last.call = "step"
    /\ last.ret = Some(TRUE)
    /\ pc = 1
    /\ last.op = Some(MoveOp(0, 4096, None))
    /\ 4096 \notin DOMAIN bus.units
    /\ logs = <<"[Step 0 | PC 0] Moved [1] to Unknown[0x1000]">>


\* C11: the length of a register's state equals its width in every state
\* reached through new, from_symbolic, write, read and cleanup; write
\* replaces the state exactly when the written vector's length equals the
\* width and otherwise leaves it unchanged; no method changes the width.
C11_StateLengthIsWidth ==
    /\ [](Len(reg.state) = reg.width)
    /\ [][/\ last'.call = "write" =>
                 LET value == last'.op[1]
                 IN /\ (Len(value) = reg.width) => reg'.state = value
                    /\ (Len(value) # reg.width) => (reg'.state = reg.state /\ reg'.state # value)
          /\ last'.call = "read" => (reg' = reg /\ last'.ret = Some(reg.state))
          /\ last'.call \in {"write", "read", "cleanup"} => reg'.width = reg.width
          /\ last'.call = "new" => reg'.width = last'.op[1]
          /\ last'.call = "from_symbolic" => reg'.width = last'.op[1][1]]_vars

\* a 2-wide register holding (0.6, 1.0) after a 1-wide write was rejected
C11_Witness ==
    /\ last.call = "write"
    /\ last.op = Some(<<10>>)
    /\ reg = [state |-> <<6, 10>>, width |-> 2]

\* C12: a register write rejected for size mismatch is reported: the status
\* execute returns for the move into that register differs from the status
\* an accepted write of the same vector to the same register returns.
C12_RejectedWriteReported ==
    [][(ExecCalled /\ GuardPasses(bus, last'.op[1]) /\ IsReg(bus, last'.op[1].dest)) =>
          LET op   == last'.op[1]
              data == read_mem(bus, op.src)
          IN Len(data) # bus.registers[op.dest].width =>
                last'.status # Some(Moved(data, "R" \o ToString(op.dest)))]_vars

\* the unit or device a write to the address reaches (None when it reaches none)
UnitAt(b, a) ==
    IF a >= 4096 /\ a < 8192 /\ a \in DOMAIN b.units THEN Some(b.units[a])
    ELSE IF a >= 32768 /\ a <= 65535 /\ a \in DOMAIN b.mmio THEN Some(b.mmio[a])
    ELSE None

\* C13: a performed move to a populated unit or device address runs that
\* unit's forward once on the moved vector: the call completes, the unit is
\* left as one forward leaves it, the I/O cache entry of the address is
\* exactly (moved vector, forward's output) and no other cache entry changes;
\* the cache has entries only at addresses of populated units and devices.
C13_UnitWriteCachesIO ==
    /\ [](\A a \in DOMAIN bus.fu_io_cache : UnitAt(bus, a) # None)
    /\ [][(ExecCalled /\ GuardPasses(bus, last'.op[1])
                      /\ UnitAt(bus, last'.op[1].dest) # None) =>
             LET op   == last'.op[1]
                 d    == op.dest
                 data == read_mem(bus, op.src)
                 f    == forward(UnitAt(bus, d)[1], data)
             IN /\ ~panicked'
                /\ UnitAt(bus', d) = Some(f.unit)
                /\ d \in DOMAIN bus'.fu_io_cache
                /\ bus'.fu_io_cache[d] = <<data, f.output>>
                /\ DOMAIN bus'.fu_io_cache = DOMAIN bus.fu_io_cache \cup {d}
                /\ \A a \in DOMAIN bus.fu_io_cache \ {d} :
                       bus'.fu_io_cache[a] = bus.fu_io_cache[a]]_vars

\* C14: a performed move into a populated register of matching width or into
\* any RAM address stores the moved vector verbatim, so that a read of that
\* address returns exactly it; a RAM write succeeds for every vector length
\* and creates the cell when it did not exist; and the value read at any
\* other register or RAM address is the same after an execute as before it,
\* so the stored vector is read back until the next write to its address.
C14_StoredVerbatim ==
    [][ExecCalled =>
          LET op   == last'.op[1]
              d    == op.dest
              data == read_mem(bus, op.src)
              done == GuardPasses(bus, op)
          IN /\ (done /\ IsReg(bus, d) /\ Len(data) = bus.registers[d].width) =>
                   /\ ~panicked'
                   /\ bus'.registers[d].state = data
                   /\ read_mem(bus', d) = data
             /\ (done /\ IsRamAddr(d)) =>
                   /\ ~panicked'
                   /\ d \in DOMAIN bus'.ram
                   /\ bus'.ram[d] = data
                   /\ read_mem(bus', d) = data
                   /\ last'.status = Some(Moved(data, "RAM[0x" \o Hex(d) \o "]"))
             /\ \A a \in (DOMAIN bus.registers \cup DOMAIN bus.ram \cup Addrs) :
                   (((a >= 0 /\ a < 4096) \/ IsRamAddr(a)) /\ (a # d \/ ~done)) =>
                       read_mem(bus', a) = read_mem(bus, a)]_vars

\* the 1-wide register 0 moved into the RAM cell 0x7FFF, which did not exist
C14_Witness ==
    /\ last.call = "execute"
    /\ last.op = Some(MoveOp(0, 32767, None))
    /\ last.status = Some("Moved [1] to RAM[0x7FFF]")
    /\ DOMAIN bus.ram = {8192, 32767}
    /\ bus.ram[32767] = <<10>>

\* C15: the fetch index pc is independent of the program-counter unit: the
\* n-th step() fetches program[n - 1] (pc always equals the number of
\* instructions executed so far), whatever was moved into a program-counter
\* unit, and a step that returns leaves pc one higher, never at the unit's
\* value.
C15_FetchIndependentOfUnit ==
    /\ [](pc = total_steps /\ pc = Len(logs))
    /\ [][(StepCalled /\ pc < Len(program)) =>
             /\ last'.op = Some(program[pc + 1])
             /\ last'.ret = Some(TRUE) => pc' = pc + 1
             /\ last'.ret # Some(TRUE) => pc' = pc]_vars

\* the first instruction moved the pattern 5 into the program-counter unit at
\* 0x1000 (5, then a tick); the second step still ran program[1]
C15_Witness ==
    /\ last.call = "step"
    /\ last.ret = Some(TRUE)
    /\ Len(program) = 2
    /\ program[1] = MoveOp(0, 4096, None)
    /\ last.op = Some(program[2])
    /\ pc = 2
    /\ 4096 \in DOMAIN bus.units
    /\ bus.units[4096].kind = "pc"
    /\ bus.units[4096].pc = 7

\* the orders in which the keys of a map can be visited
Orders(S) ==
    { f \in [1..Cardinality(S) -> S] : \A i, j \in 1..Cardinality(S) : i # j => f[i] # f[j] }

\* C16: every step() that returns true leaves every unit and every device
\* one tick past where the instruction left it (a program counter one
\* higher, every other unit as it was), also when the instruction was
\* skipped or addressed an unpopulated location; the tick changes no
\* register, RAM cell or I/O-cache entry; and ticking the units and devices
\* in any order gives the same bus.
C16_StepTicksAll ==
    /\ [](\A us \in Orders(DOMAIN bus.units), ms \in Orders(DOMAIN bus.mmio) :
               /\ tick_all_in(bus, us, ms) = tick_all(bus)
               /\ tick_all_in(bus, us, ms).registers = bus.registers
               /\ tick_all_in(bus, us, ms).ram = bus.ram
               /\ tick_all_in(bus, us, ms).fu_io_cache = bus.fu_io_cache)
    /\ [][(StepCalled /\ last'.ret = Some(TRUE)) =>
             LET op == last'.op[1]
                 e  == IF ~GuardPasses(bus, op) \/ UnpopulatedDest(bus, op.dest)
                       THEN bus ELSE execute(bus, op).bus
             IN /\ DOMAIN bus'.units = DOMAIN e.units
                /\ DOMAIN bus'.mmio = DOMAIN e.mmio
                /\ \A a \in DOMAIN e.units :
                      IF e.units[a].kind = "pc"
                      THEN bus'.units[a] = [kind |-> "pc", pc |-> e.units[a].pc + 1]
                      ELSE bus'.units[a] = e.units[a]
                /\ \A a \in DOMAIN e.mmio :
                      IF e.mmio[a].kind = "pc"
                      THEN bus'.mmio[a] = [kind |-> "pc", pc |-> e.mmio[a].pc + 1]
                      ELSE bus'.mmio[a] = e.mmio[a]
                /\ bus'.registers = e.registers
                /\ bus'.ram = e.ram
                /\ bus'.fu_io_cache = e.fu_io_cache]_vars

\* two skipped instructions: the program counters at 0x1000 and 0xFFFF both
\* stand at 2 and nothing was cached
C16_Witness ==
    /\ last.call = "step"
    /\ last.ret = Some(TRUE)
    /\ last.status = Some(SKIPPED)
    /\ pc = 2
    /\ DOMAIN bus.units = {4096, 8191}
    /\ bus.units[4096] = [kind |-> "pc", pc |-> 2]
    /\ bus.mmio[65535] = [kind |-> "pc", pc |-> 2]
    /\ bus.fu_io_cache = << >>

(***************************************************************************)
(* Circuits: what a circuit's wiring says, read off the maps alone.        *)
(***************************************************************************)
Range(f) == { f[x] : x \in DOMAIN f }

\* the input indices of a gate, and the number of outputs it has
InputsOfGate(g) == 0..(Len(g.w1[1]) - 1)
OutputWidth(g) == Len(g.w2)

\* the sources wired to the inputs of gate id (a gate of the circuit)
SourcesOf(c, id) ==
    { c.connections[<<id, i>>] :
        i \in { j \in InputsOfGate(c.gates[id]) : <<id, j>> \in DOMAIN c.connections } }

\* the <<gate id, output index>> pairs gate id consumes
GateRefsOf(c, id) == { <<src[1][1], src[2]>> : src \in { t \in SourcesOf(c, id) : t[1] # None } }

\* the gate ids reachable from the ids S along the connections
RECURSIVE Closure(_, _)
Closure(c, S) ==
    LET T == S \cup { r[1] : r \in UNION { GateRefsOf(c, id) : id \in S \cap DOMAIN c.gates } }
    IN IF T = S THEN S ELSE Closure(c, T)

\* the gates of the circuit some declared output depends on
NeededGates(c) == Closure(c, { o[1] : o \in Range(c.output_mapping) }) \cap DOMAIN c.gates

\* the gate outputs referenced by a declared output or by a needed gate
NeededRefs(c) == Range(c.output_mapping) \cup UNION { GateRefsOf(c, id) : id \in NeededGates(c) }

Acyclic(c) == \A id \in DOMAIN c.gates : id \notin Closure(c, { r[1] : r \in GateRefsOf(c, id) })

MissingGateRef(c) == \E r \in NeededRefs(c) : r[1] \notin DOMAIN c.gates

BadIndexRef(c) ==
    \E r \in NeededRefs(c) : r[1] \in DOMAIN c.gates /\ r[2] >= OutputWidth(c.gates[r[1]])

\* a needed gate reads a circuit input the input vector does not have
BadInputRef(c, inp) ==
    \E id \in NeededGates(c) : \E src \in SourcesOf(c, id) : src[1] = None /\ src[2] >= Len(inp)

\* a needed gate has an input with no entry in the connection map
MissingConnection(c) ==
    \E id \in NeededGates(c) : \E i \in InputsOfGate(c.gates[id]) : <<id, i>> \notin DOMAIN c.connections

\* the output vector of gate id by the wiring alone, an unconnected input
\* read as 0.0; GateIn is the vector of the gate's first n inputs
RECURSIVE GateOut(_, _, _), GateIn(_, _, _, _)
GateIn(c, inp, id, n) ==
    IF n = 0 THEN << >>
    ELSE Append(GateIn(c, inp, id, n - 1),
                IF <<id, n - 1>> \notin DOMAIN c.connections THEN 0
                ELSE LET src == c.connections[<<id, n - 1>>]
                     IN IF src[1] = None THEN inp[src[2] + 1]
                        ELSE GateOut(c, inp, src[1][1])[src[2] + 1])

GateOut(c, inp, id) ==
    NeuralGate_forward(c.gates[id], GateIn(c, inp, id, Len(c.gates[id].w1[1])))

LenOk == Len(circuit_inputs) = circuit.input_size
Returned == outcome.tag \in {"Ok", "Err"}

\* C17 as claimed: when forward on an acyclic circuit returns its output
\* vector, every gate of the circuit has been evaluated exactly once.
C17_EveryGateOnce ==
    (outcome = Ok /\ Acyclic(circuit)) => \A id \in DOMAIN circuit.gates : evals[id] = 1

\* C17 as amended: on an acyclic circuit no gate is evaluated more than once,
\* however many inputs and outputs consume it; when forward returns its
\* output vector, every gate a declared output depends on has been evaluated
\* exactly once and every other gate not at all.
C17_NeededGatesOnce ==
    Acyclic(circuit) =>
        /\ \A id \in DOMAIN circuit.gates : evals[id] <= 1
        /\ outcome = Ok =>
              \A id \in DOMAIN circuit.gates :
                  evals[id] = IF id \in NeededGates(circuit) THEN 1 ELSE 0

\* the full adder on (1, 1, 1) with the sum declared twice: the first XOR,
\* consumed by two gates, ran once, the spare gate 5 never
C17_Witness ==
    /\ outcome = Ok
    /\ circuit = full_adder_with(<<None, 2>>, <<2, 0>>)
    /\ circuit_inputs = <<10, 10, 10>>
    /\ results = <<10, 10, 10>>
    /\ evals = [id \in 0..5 |-> IF id = 5 THEN 0 ELSE 1]

AtUnconnectedInput ==
    /\ outcome = Running
    /\ frames # << >>
    /\ Top.at = "loop"
    /\ Top.i < Len(Top.gate_input_vec)
    /\ <<Top.gate_id, Top.i>> \notin DOMAIN circuit.connections

\* C19: a gate input with no entry in the connection map is fed 0.0 and the
\* evaluation goes on; a circuit whose only irregularity is such inputs
\* returns its output vector, computed with 0.0 at them.
C19_UnconnectedInputIsZero ==
    /\ [][AtUnconnectedInput =>
             /\ outcome' = Running
             /\ Len(frames') = Len(frames)
             /\ frames'[Len(frames)].gate_input_vec[Top.i + 1] = 0
             /\ frames'[Len(frames)].i = Top.i + 1
             /\ frames'[Len(frames)].gate_id = Top.gate_id]_vars
    /\ []((Returned /\ LenOk /\ MissingConnection(circuit) /\ Acyclic(circuit)
                    /\ ~MissingGateRef(circuit) /\ ~BadIndexRef(circuit)
                    /\ ~BadInputRef(circuit, circuit_inputs)) =>
             /\ outcome = Ok
             /\ \A k \in 1..Len(circuit.output_mapping) :
                   results[k] = GateOut(circuit, circuit_inputs, circuit.output_mapping[k][1])
                                    [circuit.output_mapping[k][2] + 1])

\* the full adder without the carry-in wired to the second AND, on (1, 0, 1):
\* that AND read 0.0, so the carry-out is 0 where the wired adder gives 1
C19_Witness ==
    /\ outcome = Ok
    /\ circuit = full_adder_with(<< >>, << >>)
    /\ circuit_inputs = <<10, 0, 10>>
    /\ results = <<0, 0>>
    /\ gate_outputs[3] = <<0>>

\* C20: a missing connection for an input of a gate that a declared output
\* depends on makes forward return a failure instead of an output vector.
C20_MissingConnectionFatal ==
    (Returned /\ LenOk /\ MissingConnection(circuit)) => outcome.tag = "Err"

(***************************************************************************)
(* Adders: the circuits of verify_circuits and ripple_adder on ideal       *)
(* gates.  An output is read as a bit the way the tests read it            *)
(* (val > 0.5).                                                            *)
(***************************************************************************)
BitOf(x) == IF x > HALF THEN 1 ELSE 0
BitsOf(v) == [k \in 1..Len(v) |-> BitOf(v[k])]

\* the bits a, b (and c) of an input vector, added as integers
Ones(v) == LET RECURSIVE S(_)
               S(k) == IF k = 0 THEN 0 ELSE BitOf(v[k]) + S(k - 1)
           IN S(Len(v))

\* C21: forward on the half adder returns Ok with (sum, carry) = (0,0),
\* (1,0), (1,0), (0,1) for the inputs 00, 01, 10, 11, and forward on the full
\* adder returns Ok with (sum, carry-out) = (n mod 2, n div 2) where n is the
\* number of ones among (A, B, Cin), which is the 8-row truth table; the
\* outputs are exactly 0.0 or 1.0.
C21_AdderTruthTables ==
    (Returned /\ LenOk /\ circuit \in {half_adder, full_adder}) =>
        /\ outcome = Ok
        /\ results \in [1..2 -> {0, ONE}]
        /\ BitsOf(results) = <<Ones(circuit_inputs) % 2, Ones(circuit_inputs) \div 2>>
        /\ circuit = half_adder =>
              BitsOf(results) =
                  CASE circuit_inputs = <<0, 0>> -> <<0, 0>>
                    [] circuit_inputs = <<0, ONE>> -> <<1, 0>>
                    [] circuit_inputs = <<ONE, 0>> -> <<1, 0>>
                    [] circuit_inputs = <<ONE, ONE>> -> <<0, 1>>

\* the full adder has returned (0, 1) for A = 1, B = 0, Cin = 1
C21_Witness ==
    /\ circuit = full_adder
    /\ circuit_inputs = <<ONE, 0, ONE>>
    /\ outcome = Ok
    /\ results = <<0, ONE>>


\* the operands the interleaved input vector A0, B0, A1, B1, ... encodes
RECURSIVE Operand(_, _, _)
Operand(v, first, bit) ==
    IF bit >= ADDER_BITS THEN 0
    ELSE BitOf(v[first + 2 * bit]) * Pow2(bit) + Operand(v, first, bit + 1)

\* the integer the output bits encode, output k being bit k
RECURSIVE ResultValue(_, _)
ResultValue(v, k) ==
    IF k > Len(v) THEN 0 ELSE BitOf(v[k]) * Pow2(k - 1) + ResultValue(v, k + 1)

\* C22: forward on the 4-bit ripple-carry adder returns Ok with five outputs,
\* each exactly 0.0 or 1.0, that encode a + b for the operands a, b in
\* [0, 16) when the carry-in is 0 (and a + b + 1 when the carry-in is 1).
C22_RippleAdds ==
    (Returned /\ LenOk /\ circuit = ripple_adder) =>
        /\ outcome = Ok
        /\ results \in [1..(ADDER_BITS + 1) -> {0, ONE}]
        /\ ResultValue(results, 1) =
              Operand(circuit_inputs, 1, 0) + Operand(circuit_inputs, 2, 0)
                + BitOf(circuit_inputs[2 * ADDER_BITS + 1])

\* 15 + 15 with carry-in 0 has returned 30 = 11110b, every carry rippling
C22_Witness ==
    /\ circuit = ripple_adder
    /\ circuit_inputs = <<ONE, ONE, ONE, ONE, ONE, ONE, ONE, ONE, 0>>
    /\ outcome = Ok
    /\ results = <<0, ONE, ONE, ONE, ONE>>


(***************************************************************************)
(* Register conversions and cleanup.                                       *)
(***************************************************************************)
\* C23: the register from_symbolic(w, v) returns, for v in [0, 2^w), has w
\* activations, activation i being above 0.5 exactly when bit i of v is set,
\* and to_symbolic on it returns v.
C23_SymbolicRoundTrip ==
    /\ [](last.call = "from_symbolic" =>
            LET w == last.op[1][1]
                v == last.op[1][2]
            IN /\ reg.width = w
               /\ Len(reg.state) = w
               /\ \A i \in 0..(w - 1) :
                     (reg.state[i + 1] > HALF) <=> ((v \div Pow2(i)) % 2 = 1))
    /\ [][(last.call = "from_symbolic" /\ last'.call = "to_symbolic") =>
             last'.ret = Some(last.op[1][2])]_vars

\* 0xA5 made into an 8-bit register has been read back as 0xA5
C23_Witness ==
    /\ last.call = "to_symbolic"
    /\ last.ret = Some(165)
    /\ reg.width = 8
    /\ reg.state = <<ONE, 0, ONE, 0, 0, ONE, 0, ONE>>


\* C24: cleanup leaves the width alone and turns every activation into 1.0
\* if it was above 0.5 and into 0.0 otherwise (0.5 itself becomes 0.0); a
\* second cleanup right after a cleanup changes nothing; and an accepted
\* write leaves the state exactly the written vector, not its cleaned form.
C24_CleanupSnaps ==
    [][/\ last'.call = "cleanup" =>
            /\ reg'.width = reg.width
            /\ Len(reg'.state) = Len(reg.state)
            /\ \A i \in 1..Len(reg.state) :
                  reg'.state[i] = IF reg.state[i] > HALF THEN ONE ELSE 0
            /\ \A i \in 1..Len(reg.state) : reg.state[i] = HALF => reg'.state[i] = 0
       /\ (last.call = "cleanup" /\ last'.call = "cleanup") => reg' = reg
       /\ (last'.call = "write" /\ Len(last'.op[1]) = reg.width) =>
            reg'.state = last'.op[1]]_vars

\* a register holding (0.5, 0.6) has been cleaned up to (0.0, 1.0)
C24_Witness ==
    /\ last.call = "cleanup"
    /\ last.op = Some(<<HALF, HALF + 1>>)
    /\ reg.state = <<0, ONE>>


(***************************************************************************)
(* The front end's lock.                                                   *)
(***************************************************************************)
\* the positions between two statements of step()
MidStep == {"executed", "logged", "ticked", "advanced"}
\* the positions at which a thread holds the guard
Holding == {"locked", "returned"} \cup MidStep

\* C25: every read made through the lock sees pc, total_steps and the
\* number of log lines all equal to the number of instructions the bus has
\* executed; while a thread is between two statements of step() no other
\* thread holds the guard (so no read and no other step() runs then); and
\* whenever the lock is free the three counters agree with the bus.
C25_StepAtomic ==
    /\ \A t \in DOMAIN threads :
          threads[t].seen # None =>
              LET s == threads[t].seen[1]
              IN s.pc = s.executed /\ s.total_steps = s.executed /\ s.logs = s.executed
    /\ \A t, u \in DOMAIN threads :
          (t # u /\ threads[t].at \in MidStep) => threads[u].at \notin Holding
    /\ \A t \in DOMAIN threads : threads[t].at \in Holding => mutex.holder = Some(t)
    /\ (threads # EmptyMap /\ mutex.holder = None) =>
          pc = executed /\ total_steps = executed /\ Len(logs) = executed

\* the reader has seen one executed instruction while the Step button's
\* thread is inside the next step(), past execute, and the run loop waits
C25_Witness ==
    /\ threads # EmptyMap
    /\ threads["render"].seen = Some([pc |-> 1, total_steps |-> 1, logs |-> 1, executed |-> 1])
    /\ threads["render"].at = "idle"
    /\ threads["button"].at = "executed"
    /\ threads["run"].at = "idle"
    /\ executed = 2
    /\ total_steps = 1


(***************************************************************************)
(* The program-counter unit, and reads of the unit and device regions.     *)
(***************************************************************************)
\* the vector a move reads at a source address, from the maps alone
Held(b, a) ==
    IF IsReg(b, a) THEN b.registers[a].state
    ELSE IF IsRam(b, a) THEN b.ram[a]
    ELSE zeros(8)

\* the addresses a write reaches a program-counter unit at
PcUnits(b) ==
    { a \in DOMAIN b.units \cup DOMAIN b.mmio :
        UnitAt(b, a) # None /\ UnitAt(b, a)[1].kind = "pc" }

\* C26: after a step() that returns true, a program-counter unit the
\* instruction moved a vector into holds T + 1, T being the integer whose
\* bit i is (vector[i] > 0.5), whatever it held before; every other
\* program-counter unit holds one more than before; and a unit no executed
\* instruction addressed holds the number of steps taken.
C26_ProgramCounterUnit ==
    /\ [][(StepCalled /\ last'.ret = Some(TRUE)) =>
             \A a \in PcUnits(bus) :
                 /\ a \in PcUnits(bus')
                 /\ UnitAt(bus', a)[1].pc =
                       IF last'.op[1].dest = a /\ GuardPasses(bus, last'.op[1])
                       THEN ResultValue(Held(bus, last'.op[1].src), 1) + 1
                       ELSE UnitAt(bus, a)[1].pc + 1]_vars
    /\ [](\A a \in PcUnits(bus) :
             (\A k \in 1..pc : program[k].dest # a) => UnitAt(bus, a)[1].pc = total_steps)

\* the second step moved the pattern 5 into the unit at 0x1000, which stood
\* at 1 after the first step's tick, and left it at 6
C26_Witness ==
    /\ last.call = "step"
    /\ last.ret = Some(TRUE)
    /\ pc = 2
    /\ program[1].dest = 4095
    /\ program[2] = MoveOp(0, 4096, None)
    /\ bus.registers[0].state = A8
    /\ 4096 \in PcUnits(bus)
    /\ bus.units[4096].pc = 6


\* an address of the unit region [0x1000, 0x2000) or the device region [0x8000, 0xFFFF]
UnitOrDevice(a) == (a >= 4096 /\ a < 8192) \/ (a >= 32768 /\ a <= 65535)

\* the unit and device maps differ only by the tick of step(), except at
\* the addresses in W
OnlyTicked(b, c, W) ==
    /\ DOMAIN c.units = DOMAIN b.units
    /\ DOMAIN c.mmio = DOMAIN b.mmio
    /\ \A a \in DOMAIN b.units \ W :
          c.units[a] = IF b.units[a].kind = "pc"
                       THEN [b.units[a] EXCEPT !.pc = @ + 1] ELSE b.units[a]
    /\ \A a \in DOMAIN b.mmio \ W :
          c.mmio[a] = IF b.mmio[a].kind = "pc"
                      THEN [b.mmio[a] EXCEPT !.pc = @ + 1] ELSE b.mmio[a]

\* the I/O cache is the same in b and c except at the addresses in W
CacheKept(b, c, W) ==
    /\ DOMAIN c.fu_io_cache \ W = DOMAIN b.fu_io_cache \ W
    /\ \A a \in DOMAIN b.fu_io_cache \ W : c.fu_io_cache[a] = b.fu_io_cache[a]

\* C27: in a step() that returns true, (a) an instruction guarded by a unit
\* or device address is skipped: registers, RAM and cache are unchanged and
\* the units are only ticked; (b) a performed move whose source is a unit or
\* device address delivers eight zeros: an 8-wide destination register or a
\* RAM destination reads all-zero afterwards, whatever the cache holds for
\* the source, and apart from the destination no unit is run and no cache
\* entry changes.
C27_UnitReadsAreZero ==
    [][(StepCalled /\ last'.ret = Some(TRUE)) =>
          LET op == last'.op[1]
          IN /\ (op.guard # None /\ UnitOrDevice(op.guard[1])) =>
                   /\ last'.status = Some(SKIPPED)
                   /\ bus'.registers = bus.registers
                   /\ bus'.ram = bus.ram
                   /\ OnlyTicked(bus, bus', {})
                   /\ CacheKept(bus, bus', {})
             /\ ((op.guard = None \/ ~UnitOrDevice(op.guard[1]))
                   /\ GuardPasses(bus, op) /\ UnitOrDevice(op.src)) =>
                   /\ (IsReg(bus, op.dest) /\ bus.registers[op.dest].width = 8) =>
                          bus'.registers[op.dest].state = <<0, 0, 0, 0, 0, 0, 0, 0>>
                   /\ IsRamAddr(op.dest) =>
                          /\ op.dest \in DOMAIN bus'.ram
                          /\ bus'.ram[op.dest] = <<0, 0, 0, 0, 0, 0, 0, 0>>
                   /\ OnlyTicked(bus, bus', {op.dest})
                   /\ CacheKept(bus, bus', {op.dest})]_vars

\* the first step ran the unit at 0x1000 on the pattern 5 and cached its
\* output 4.1; the second moved from 0x1000 into the 8-wide register 0x0FFF,
\* which reads all-zero
C27_Witness ==
    /\ last.call = "step"
    /\ last.ret = Some(TRUE)
    /\ pc = 2
    /\ program[1] = MoveOp(0, 4096, None)
    /\ program[2] = MoveOp(4096, 4095, None)
    /\ 4096 \in DOMAIN bus.fu_io_cache
    /\ bus.fu_io_cache[4096] = <<A8, <<41>>>>
    /\ 4095 \in DOMAIN bus.registers
    /\ bus.registers[4095].state = <<0, 0, 0, 0, 0, 0, 0, 0>>


(***************************************************************************)
(* Termination of NeuralCircuit::forward.                                  *)
(***************************************************************************)
\* the gates of R left after removing, again and again, every gate none of
\* whose inputs is wired to a gate still in R: the gates of R on a connection
\* cycle or fed from one
RECURSIVE Peel(_, _)
Peel(c, R) ==
    LET free == { id \in R : \A r \in GateRefsOf(c, id) : r[1] \notin R }
    IN IF free = {} THEN R ELSE Peel(c, R \ free)

\* the connection graph has no cycle
NoCycle(c) == Peel(c, DOMAIN c.gates) = {}

\* a gate some declared output depends on lies on a connection cycle
NeededCycle(c) == Peel(c, NeededGates(c)) # {}

\* the same gate is being resolved twice on the stack
Reentered == \E j, k \in 1..Len(frames) : j < k /\ frames[j].gate_id = frames[k].gate_id

C29_ExecuteFrame ==
    [][StepCalled =>
          /\ program' = program
          /\ DOMAIN bus'.registers = DOMAIN bus.registers
          /\ DOMAIN bus'.units = DOMAIN bus.units
          /\ DOMAIN bus'.mmio = DOMAIN bus.mmio
          /\ \A a \in DOMAIN bus.registers : bus'.registers[a].width = bus.registers[a].width
          /\ DOMAIN bus.ram \subseteq DOMAIN bus'.ram
          /\ (/\ last'.ret = Some(TRUE)
              /\ GuardPasses(bus, last'.op[1])
              /\ (last'.op[1].dest < 4096 \/ IsRamAddr(last'.op[1].dest))) =>
                 LET op == last'.op[1]
                 IN /\ \A a \in DOMAIN bus.registers \ {op.dest} :
                          bus'.registers[a] = bus.registers[a]
                    /\ \A a \in DOMAIN bus.ram \ {op.dest} : bus'.ram[a] = bus.ram[a]
                    /\ DOMAIN bus'.ram \subseteq DOMAIN bus.ram \cup {op.dest}
                    /\ op.src # op.dest => Held(bus', op.src) = Held(bus, op.src)
                    /\ OnlyTicked(bus, bus', {})
                    /\ bus'.fu_io_cache = bus.fu_io_cache]_vars

\* the step moved the pattern 5 from register 0 into the 8-wide register
\* 0x0FFF: both hold it now, register 1 and the RAM cell are as loaded, and
\* the program-counter unit has ticked once
C29_Witness ==
    /\ last.call = "step"
    /\ last.ret = Some(TRUE)
    /\ last.op = Some(MoveOp(0, 4095, None))
    /\ pc = 1
    /\ bus.registers[0] = reg_with(8, A8)
    /\ 4095 \in DOMAIN bus.registers
    /\ bus.registers[4095] = reg_with(8, A8)
    /\ bus.registers[1] = reg_with(1, <<HALF>>)
    /\ bus.ram = insert(EmptyMap, 8192, <<HALF + 1, 0>>)
    /\ 4096 \in PcUnits(bus)
    /\ bus.units[4096].pc = 1


(***************************************************************************)
(* load_program on a running emulator.                                     *)
(***************************************************************************)
\* C30: load_program makes its argument the program and leaves pc,
\* total_steps, the log and the bus as they were; the step() after it
\* fetches the new program at index pc, the number of instructions already
\* executed, and when the new program is no longer than that it returns
\* false and changes nothing.
C30_LoadKeepsPosition ==
    /\ [](pc = total_steps)
    /\ [][last'.call = "load_program" =>
             /\ program' = last'.op[1]
             /\ pc' = pc
             /\ total_steps' = total_steps
             /\ logs' = logs
             /\ bus' = bus]_vars
    /\ [][(last.call = "load_program" /\ StepCalled) =>
             IF Len(program) <= total_steps
             THEN /\ last'.ret = Some(FALSE)
                  /\ UNCHANGED emu_vars
             ELSE /\ last'.op = Some(program[total_steps + 1])
                  /\ last'.ret = Some(TRUE) =>
                        logs' = Append(logs, log_entry(total_steps, total_steps,
                                                       last'.status[1]))]_vars

\* after one executed instruction a one-instruction program that would run
\* the unit at 0x1000 was loaded: the next step() returned false and the
\* unit has never been run
C30_Witness ==
    /\ last.call = "step"
    /\ last.ret = Some(FALSE)
    /\ total_steps = 1
    /\ pc = 1
    /\ Len(logs) = 1
    /\ program = <<MoveOp(0, 4096, None)>>
    /\ 4096 \in DOMAIN bus.units
    /\ bus.fu_io_cache = EmptyMap

====
